---- MODULE Spec2Model ----
(***************************************************************************)
(* Stock-Price-Prediction:                                                 *)
(*   Code/models/arima/arimaModel.py   runArima                            *)
(*   Code/models/lstm/lstmModel.py     runLstm, buildAndTrainLstm          *)
(*   Code/config.py                    getTrainEndDate and the settings    *)
(*   Code/main.py                      the batch program                   *)
(*   Code/dataHandler/dataHandler.py   loadNifty50Yfinance                 *)
(*   GUICode/Code/stockPredictorGui.py the interactive predictor           *)
(*                                                                         *)
(* Spec      one call of runArima or runLstm on one table                  *)
(* FairSpec  the same, every step that can be taken being taken           *)
(* BuildSpec one call of buildAndTrainLstm                                 *)
(* MainSpec  one run of main.py                                            *)
(* GuiSpec   one run of the script of the interactive predictor            *)
(* LoadSpec  one call of loadNifty50Yfinance                               *)
(*                                                                         *)
(* Every iteration of a forecaster's date loop is one action; the calls    *)
(* into pmdarima, statsmodels, scikit-learn, keras, joblib, yfinance and   *)
(* pandas may raise, which the action draws as its outcome.  A forecaster  *)
(* call starts after os.makedirs has made sure the model directory exists. *)
(***************************************************************************)
EXTENDS Integers, Sequences, FiniteSets, TLC

(***************************************************************************)
(* Bounds of the model.  config.py sets lookback = 60 (line 28) and        *)
(* retrainInterval = 5 (line 38); the model runs the same code with the    *)
(* two settings scaled down, so that tables of a few rows reach every      *)
(* branch of the sweep.                                                    *)
(***************************************************************************)
MaxRows == 7
MaxMissing == 1
MaxFaults == 1
MaxEvalDates == 5
MaxProviderRows == 4
MaxGaps == 1
lookback == 2
retrainInterval == 2

(***************************************************************************)
(* Program constants.                                                      *)
(***************************************************************************)
rollingWindowYears == 3
gap_years == 1
minObservations == 5
NaN == -1

\* The column lists a call may request: the two price columns of main.py, and
\* two columns whose names differ in case only.
Requested == { <<"Open", "Close">>, <<"close", "Close">> }

(***************************************************************************)
(* Dates are the integers yyyymmdd, which order as the dates do.           *)
(***************************************************************************)
Year(d) == d \div 10000
Month(d) == (d \div 100) % 100
DayOfMonth(d) == d % 100
MkDate(y, m, dd) == y * 10000 + m * 100 + dd

IsLeap(y) == (y % 4 = 0 /\ y % 100 # 0) \/ y % 400 = 0

DaysInMonth(y, m) ==
    IF m = 2 THEN (IF IsLeap(y) THEN 29 ELSE 28)
    ELSE IF m \in {4, 6, 9, 11} THEN 30 ELSE 31

Min(a, b) == IF a <= b THEN a ELSE b
Max(a, b) == IF a >= b THEN a ELSE b

\* day - pd.DateOffset(years=n): same month and day n years earlier, the day
\* clipped to the end of the month (29 February -> 28 February).
MinusYears(d, n) ==
    LET y == Year(d) - n
        m == Month(d)
    IN MkDate(y, m, Min(DayOfMonth(d), DaysInMonth(y, m)))

\* day - pd.Timedelta(days=1)
MinusOneDay(d) ==
    IF DayOfMonth(d) > 1 THEN d - 1
    ELSE IF Month(d) > 1
         THEN MkDate(Year(d), Month(d) - 1, DaysInMonth(Year(d), Month(d) - 1))
         ELSE MkDate(Year(d) - 1, 12, 31)

\* DatetimeIndex.dayofweek: Monday is 0 and Sunday 6.
dayofweek(d) ==
    LET a == (14 - Month(d)) \div 12
        y == Year(d) + 4800 - a
        m == Month(d) + 12 * a - 3
        dayNumber == DayOfMonth(d) + ((153 * m + 2) \div 5) + 365 * y
                        + (y \div 4) - (y \div 100) + (y \div 400) - 32045
    IN dayNumber % 7

(***************************************************************************)
(* The dates a table may hold: leap days, month ends, consecutive days,    *)
(* gaps of one year and of three; a table is a run of consecutive entries. *)
(***************************************************************************)
Calendar ==
    << 20200228, 20200229, 20200302, 20230228, 20230301, 20230302,
       20230303, 20240228, 20240229, 20240301, 20250303, 20250304 >>

VARIABLES
    kind,               \* "arima", "lstm", "build", "main", "gui", "load": what runs
    columns,            \* the columns argument: the requested column names
    retrain,            \* runArima's retrain argument
    df,                 \* the table: rows [date, val], ascending by date
                        \* (the loader's: as the provider gave it, then as returned)
    testIndex,          \* the evaluation index: rows dated after the cutoff
    pc,                 \* "run" inside the column loop, "done" after return
    col,                \* position of the current column in columns
    dayIx,              \* position of the current day in testIndex
    preds,              \* preds of the current column
    forecasts,          \* forecasts / predictions: column -> series
    lastModel,          \* runArima: lastModel of the current column
    lstmModelCurrent,   \* runLstm: cached model of the current column
    lstmScalerCurrent,  \* runLstm: cached scaler of the current column
    lstmCounter,        \* runLstm: step counter of the current column
    files,              \* the persisted artifacts: path -> artifact
    attemptedAt,        \* runLstm: days of the column at which training was entered
    trainedAt,          \* runLstm: days of the column at which training returned a model
    faults,             \* number of calls that raised so far
    errorLog,           \* what logError was called with: column, day, call
    fittedOn,           \* fitted model or scaler -> the rows it was fitted on
    arimaResults,       \* main.py: what runArima returned
    lstmResults,        \* main.py: what runLstm returned
    output,             \* main.py: what was printed and plotted, in order
    calls,              \* main.py: the functions called, in order
    gui,                \* stockPredictorGui.py: the widgets and the locals
    event               \* what the last iteration did and what it started from

vars == << kind, columns, retrain, df, testIndex, pc, col, dayIx, preds, forecasts, lastModel,
           lstmModelCurrent, lstmScalerCurrent, lstmCounter, files,
           attemptedAt, trainedAt, faults, errorLog, fittedOn,
           arimaResults, lstmResults, output, calls, gui, event >>

\* The variables of the batch program, and those of a forecaster's sweep.
mainVars == << arimaResults, lstmResults, output, calls, gui >>
sweepVars == << retrain, dayIx, preds, forecasts, lastModel, lstmModelCurrent,
               lstmScalerCurrent, lstmCounter, files, attemptedAt, trainedAt,
               fittedOn >>

(***************************************************************************)
(* Artifacts.  A fitted model or scaler is named by the column and the     *)
(* evaluation date (position in testIndex) of the step that fitted it.     *)
(***************************************************************************)
None == << 0, 0 >>

\* The interactive predictor is not part of a run of the forecasters or of
\* the batch program.
NoGui == [typeSelect |-> "Select"]
Artifact(c, i) == << c, i >>

\* An entry of preds: missing (np.nan), or the forecast of a model, decoded
\* (runLstm) with a scaler.
Missing == [nan |-> TRUE, model |-> None, scaler |-> None]
Value(m, s) == [nan |-> FALSE, model |-> m, scaler |-> s]

(***************************************************************************)
(* The table.                                                              *)
(***************************************************************************)
ColumnNames == {columns[k] : k \in 1..Len(columns)}

\* A price of the provider: any non-missing number; the row and the column
\* tell the cells apart.
Price(i, c) == 100 + 10 * i + (IF c = columns[1] THEN 0 ELSE 5)

Table(lo, hi, missing) ==
    [i \in 1..(hi - lo + 1) |->
        [date |-> Calendar[lo + i - 1],
         val  |-> [c \in ColumnNames |->
                      IF << i, c >> \in missing THEN NaN ELSE Price(i, c)]]]

Rows == 1..Len(df)
SetMin(S) == CHOOSE x \in S : \A y \in S : x <= y
SetMax(S) == CHOOSE x \in S : \A y \in S : x >= y
indexMin == SetMin({df[i].date : i \in Rows})
indexMax == SetMax({df[i].date : i \in Rows})

AllRows == [i \in Rows |-> i]

getTrainEndDate == MinusYears(indexMax, gap_years)

\* Mutant: the cutoff date itself is part of the evaluation index.
AfterCutoffInclusive ==
    LET trainEndDate == getTrainEndDate
        after(i) == df[i].date >= trainEndDate
    IN SelectSeq(AllRows, after)

\* dfTest.index[dfTest.index > trainEndDate]: the rows dated after the cutoff.
AfterCutoff ==
    LET trainEndDate == getTrainEndDate
        after(i) == df[i].date > trainEndDate
    IN SelectSeq(AllRows, after)

DateAt(i) == df[testIndex[i]].date

startTrain(day) == Max(indexMin, MinusYears(day, rollingWindowYears))
\* Mutant: the window runs up to the evaluation date itself.
endTrainInclusive(day) == day

endTrain(day) == MinusOneDay(day)

\* Mutant: a window of one day (startTrain = endTrain) passes.
WindowInvalidStrict(day) == startTrain(day) > endTrain(day)

WindowInvalid(day) == startTrain(day) >= endTrain(day)

\* df.loc[startTrain:endTrain]: label slicing, both ends included.
LocRows(first, last) ==
    LET inside(i) == first <= df[i].date /\ df[i].date <= last
    IN SelectSeq(AllRows, inside)

\* df.loc[startTrain:endTrain, col].dropna()
yTrain(day, c) ==
    LET present(i) == df[i].val[c] # NaN
    IN SelectSeq(LocRows(startTrain(day), endTrain(day)), present)

\* DataFrame.dropna(): the rows with no missing value in any column.
Complete(i) == \A c \in ColumnNames : df[i].val[c] # NaN

\* df.loc[startTrain:endTrain, columns].dropna()
dfWindow(day) == SelectSeq(LocRows(startTrain(day), endTrain(day)), Complete)

\* df.index[df.index < day][-lookback:]
pastIdx(day) ==
    LET before(i) == df[i].date < day
        past == SelectSeq(AllRows, before)
    IN IF Len(past) <= lookback THEN past
       ELSE SubSeq(past, Len(past) - lookback + 1, Len(past))

\* Mutant: the rows with a missing value stay in the window.
dfTestWindowKeepMissing(day) ==
    LET past == pastIdx(day)
        member(i) ==
            \/ \E k \in 1..Len(past) : past[k] = i
            \/ df[i].date = day
    IN SelectSeq(AllRows, member)

\* df.loc[pastIdx.union([day]), columns].dropna()
dfTestWindow(day) ==
    LET past == pastIdx(day)
        member(i) ==
            \/ \E k \in 1..Len(past) : past[k] = i
            \/ df[i].date = day
    IN SelectSeq(SelectSeq(AllRows, member), Complete)

\* Mutant: the window fed to the model is taken one row late (it ends with
\* the row of the day).
xInputShifted(day) ==
    LET w == dfTestWindow(day)
    IN SubSeq(w, 2, Min(lookback + 1, Len(w)))

\* scaledWindow.iloc[0:lookback]: the first lookback rows of the scaled window.
xInput(day) ==
    LET w == dfTestWindow(day)
    IN SubSeq(w, 1, Min(lookback, Len(w)))

\* Mutant: the target is read at the last row of the input, not after it.
createSequencesTargetInside(rows, K, targetColumn) ==
    [i \in 1..Max(Len(rows) - K, 0) |->
        [x |-> [k \in 1..K |-> df[rows[i + k - 1]].val],
         y |-> df[rows[i + K - 1]].val[targetColumn]]]

\* createSequences: one pair per i in range(len(dataframe) - lookback); seq_x
\* is the values of rows i .. i+lookback-1 in every column, seq_y the value of
\* targetColumn in the row after them.
createSequences(rows, K, targetColumn) ==
    [i \in 1..Max(Len(rows) - K, 0) |->
        [x |-> [k \in 1..K |-> df[rows[i + k - 1]].val],
         y |-> df[rows[i + K]].val[targetColumn]]]

\* buildAndTrainLstm: None when there is no pair, else the trained model.
buildAndTrainLstm(rows, targetColumn, id) ==
    IF Len(createSequences(rows, lookback, targetColumn)) = 0 THEN None ELSE id

(***************************************************************************)
(* Decoding the scaled prediction.                                         *)
(***************************************************************************)
\* Mutant: the first feature is decoded, whatever the target column.
colIdxFirst(targetColumn) == SetMin(1..Len(columns))

\* columns.index(targetColumn): the first position that holds the name.
colIdx(targetColumn) ==
    SetMin({k \in 1..Len(columns) : columns[k] = targetColumn})

\* np.zeros((1, len(columns))) with the scaled prediction at col_idx.
tempInput(targetColumn) ==
    [k \in 1..Len(columns) |->
        IF k = colIdx(targetColumn) THEN << "yPredScaled" >> ELSE << "zero" >>]

\* The features of the scaler: the columns of the dfWindow it was fitted on.
scalerFeatures == columns

\* scaler.inverse_transform: position k of the vector is decoded with the
\* range of the scaler's k-th feature.
inverse_transform(vec) ==
    [k \in 1..Len(vec) |-> [feature |-> scalerFeatures[k], scaled |-> vec[k]]]

NoDecode == [width |-> 0, idx |-> 0, feature |-> "", scaled |-> << "zero" >>]

\* preds.append(inverseResult[0, col_idx])
inverseResult(targetColumn) ==
    LET vec == tempInput(targetColumn)
        idx == colIdx(targetColumn)
        out == inverse_transform(vec)
    IN [width |-> Len(vec), idx |-> idx,
        feature |-> out[idx].feature, scaled |-> out[idx].scaled]

(***************************************************************************)
(* Persisted artifacts.                                                    *)
(***************************************************************************)
\* str.capitalize(): first character upper case, the rest lower case.
capitalize(c) ==
    CASE c \in {"Open", "open", "OPEN"} -> "Open"
      [] c \in {"Close", "close", "CLOSE"} -> "Close"
      [] OTHER -> c

ArimaModelPath(c) == << "models/arima", "arimaModel", capitalize(c), ".pkl" >>
LstmModelPath(c) == << "models/lstm", "lstmModel", capitalize(c), ".keras" >>
LstmScalerPath(c) == << "models/lstm", "scaler", capitalize(c), ".pkl" >>

Paths ==
    UNION {{ArimaModelPath(c), LstmModelPath(c), LstmScalerPath(c)} :
              c \in ColumnNames}

(***************************************************************************)
(* The calls that may raise inside a try block.                            *)
(***************************************************************************)
ArimaFaults == {"autoArima", "fit", "forecast"}
LstmTrainFaults == {"fitScaler", "train"}
LstmSaveFaults == {"saveModel", "saveScaler"}
LstmFaults == LstmTrainFaults \cup LstmSaveFaults \cup {"predict"}

\* What an iteration works on and leaves behind: the locals of the column
\* loop, the files, and what the iteration did.
Locals(m, s) ==
    [preds |-> preds, model |-> m, scaler |-> s, counter |-> lstmCounter,
     files |-> files, branch |-> "", attempt |-> FALSE, trained |-> FALSE,
     fault |-> "none", logged |-> FALSE, escaped |-> FALSE,
     scaled |-> << >>, input |-> << >>, fitted |-> << >>,
     decoded |-> NoDecode]

\* preds.append(np.nan); continue
Skip(s, b) == [s EXCEPT !.preds = Append(@, Missing), !.branch = b]

\* logError(e, context=...); preds.append(np.nan)
LogAndSkip(s, b) == [Skip(s, b) EXCEPT !.logged = TRUE]

(***************************************************************************)
(* runArima: one iteration of "for day in testIndex".                      *)
(***************************************************************************)
\* Mutant: a window of exactly 5 observations is skipped as well.
ArimaTooFewInclusive(n) == n <= minObservations

ArimaTooFew(n) == n < minObservations

\* Mutant: the handler falls back on the forecast of the last fitted model.
ArimaExceptFallback(s) ==
    IF s.model = None THEN LogAndSkip(s, "fitFailed")
    ELSE [s EXCEPT !.preds = Append(@, Value(s.model, None)),
                   !.branch = "fitFailed", !.logged = TRUE]

\* Mutant: the handler logs and raises again.
ArimaExceptReraise(s) ==
    [LogAndSkip(s, "fitFailed") EXCEPT !.escaped = TRUE]

\* except Exception: logError(...); preds.append(np.nan)
ArimaExcept(s) == LogAndSkip(s, "fitFailed")

\* Mutant: the first fitted model of the column is kept, not the last.
ArimaFitKeepFirst(s, id, o) ==
    LET sa == [s EXCEPT !.attempt = TRUE]
    IN IF o \in ArimaFaults
       THEN ArimaExcept([sa EXCEPT !.fault = o])
       ELSE [sa EXCEPT !.preds = Append(@, Value(id, None)),
                       !.model = IF s.model = None THEN id ELSE s.model,
                       !.trained = TRUE, !.branch = "predicted"]

\* try: auto_arima, ARIMA(...).fit(), forecast, append, lastModel = model
ArimaFit(s, id, o) ==
    LET sa == [s EXCEPT !.attempt = TRUE]
    IN IF o \in ArimaFaults
       THEN ArimaExcept([sa EXCEPT !.fault = o])
       ELSE [sa EXCEPT !.preds = Append(@, Value(id, None)),
                       !.model = id, !.trained = TRUE, !.branch = "predicted"]

ArimaIteration(o) ==
    LET day == DateAt(dayIx)
        s0 == Locals(lastModel, None)
    IN IF WindowInvalid(day) THEN Skip(s0, "invalidWindow")
       ELSE LET y == yTrain(day, columns[col])
            IN IF ArimaTooFew(Len(y))
               THEN Skip(s0, "insufficient")
               ELSE ArimaFit([s0 EXCEPT !.fitted = y], Artifact(col, dayIx), o)

(***************************************************************************)
(* runLstm: one iteration of "for day in testIndex".                       *)
(***************************************************************************)
\* Mutant: the window is never found too short.
LstmTooFewNever(n) == FALSE

\* Mutant: lookback rows are taken to be enough.
LstmTooFewOffByOne(n) == n < lookback

LstmTooFew(n) == n < lookback + 1

\* Mutant: the counter counts every date, the skipped ones too.
LstmSkipCounting(s, b) == Skip([s EXCEPT !.counter = @ + 1], b)

\* The two early exits: invalid window, too few rows.
LstmSkip(s, b) == Skip(s, b)

\* Mutant: an empty cache does not trigger training.
RetrainDueOnScheduleOnly(counter, model) == counter % retrainInterval = 0

\* Mutant: the counter is tested before it is incremented.
RetrainDueBeforeIncrement(counter, model) ==
    ((counter - 1) % retrainInterval = 0) \/ (model = None)

RetrainDue(counter, model) ==
    (counter % retrainInterval = 0) \/ (model = None)

\* Mutant: the scaler is not cached with its model.
StoreCurrentModelOnly(s, lstmModel, scaler) == [s EXCEPT !.model = lstmModel]

\* Mutant: the scaler is cached once and kept across retrains.
StoreCurrentFirstScaler(s, lstmModel, scaler) ==
    [s EXCEPT !.model = lstmModel,
              !.scaler = IF s.scaler = None THEN scaler ELSE s.scaler]

\* lstmModelCurrent = lstmModel; lstmScalerCurrent = scaler
StoreCurrent(s, lstmModel, scaler) ==
    [s EXCEPT !.model = lstmModel, !.scaler = scaler]

\* Mutant: the cache is what it was before the step, as if it were assigned
\* after the saves.
LstmTrainExceptRestore(s) ==
    LogAndSkip([s EXCEPT !.model = lstmModelCurrent,
                         !.scaler = lstmScalerCurrent], "trainFailed")

\* Mutant: a failed training step empties the cache.
LstmTrainExceptReset(s) ==
    LogAndSkip([s EXCEPT !.model = None, !.scaler = None], "trainFailed")

\* Mutant: the handler logs and raises again.
LstmTrainExceptReraise(s) ==
    [LogAndSkip(s, "trainFailed") EXCEPT !.escaped = TRUE]

\* except Exception (training): logError(...); preds.append(np.nan); continue
LstmTrainExcept(s) == LogAndSkip(s, "trainFailed")

\* Mutant: the handler logs and appends nothing.
LstmPredictExceptNoAppend(s) ==
    [s EXCEPT !.branch = "predictFailed", !.logged = TRUE]

\* except Exception (prediction): logError(...); preds.append(np.nan)
LstmPredictExcept(s) == LogAndSkip(s, "predictFailed")

\* From "if lstmModel is None or scaler is None" to the end of the iteration.
LstmPredict(s, lstmModel, scaler, day, o) ==
    IF lstmModel = None \/ scaler = None THEN Skip(s, "noModel")
    ELSE IF Len(pastIdx(day)) < lookback THEN Skip(s, "shortHistory")
    ELSE IF Len(dfTestWindow(day)) < lookback + 1 THEN Skip(s, "missingInput")
    ELSE IF o = "predict" THEN LstmPredictExcept([s EXCEPT !.fault = o])
    ELSE [s EXCEPT !.preds = Append(@, Value(lstmModel, scaler)),
                   !.scaled = dfTestWindow(day), !.input = xInput(day),
                   !.decoded = inverseResult(columns[col]),
                   !.branch = "predicted"]

\* The retrain branch: fit the scaler, train, cache, save, then predict.
LstmTrain(s, day, id, o) ==
    LET c == columns[col]
        sa == [s EXCEPT !.attempt = TRUE, !.fitted = dfWindow(day)]
    IN IF o \in LstmTrainFaults
       THEN LstmTrainExcept([sa EXCEPT !.fault = o])
       ELSE
         LET lstmModel == buildAndTrainLstm(sa.fitted, c, id)
             scaler == id
             sc == StoreCurrent([sa EXCEPT !.trained = (lstmModel # None)],
                                lstmModel, scaler)
             sm == [sc EXCEPT !.files[LstmModelPath(c)] = lstmModel]
             ss == [sm EXCEPT !.files[LstmScalerPath(c)] = scaler]
         IN IF lstmModel = None
            THEN LstmTrainExcept(sc)   \* None has no save(): AttributeError
            ELSE IF o = "saveModel"
            THEN LstmTrainExcept([sc EXCEPT !.fault = o])
            ELSE IF o = "saveScaler"
            THEN LstmTrainExcept([sm EXCEPT !.fault = o])
            ELSE LstmPredict(ss, lstmModel, scaler, day, o)

LstmIteration(o) ==
    LET day == DateAt(dayIx)
        s0 == Locals(lstmModelCurrent, lstmScalerCurrent)
    IN IF WindowInvalid(day) THEN LstmSkip(s0, "invalidWindow")
       ELSE IF LstmTooFew(Len(dfWindow(day)))
            THEN LstmSkip(s0, "insufficient")
            ELSE LET s1 == [s0 EXCEPT !.counter = @ + 1]
                 IN IF RetrainDue(s1.counter, s1.model)
                    THEN LstmTrain(s1, day, Artifact(col, dayIx), o)
                    ELSE LstmPredict(s1, s1.model, s1.scaler, day, o)

(***************************************************************************)
(* The state machine.                                                      *)
(***************************************************************************)
RECURSIVE UpTo(_, _)
\* The subsets of S of at most k elements.
UpTo(S, k) ==
    IF k = 0 THEN {{}}
    ELSE UpTo(S, k - 1) \cup {T \cup {x} : T \in UpTo(S, k - 1), x \in S}

\* The locals and files an iteration starts from.
Before(m) ==
    [model |-> m, scaler |-> lstmScalerCurrent, counter |-> lstmCounter,
     files |-> files, npreds |-> Len(preds), preds |-> preds,
     forecasts |-> forecasts]

Event(op, c, i, m, r) ==
    [op |-> op, col |-> c, day |-> i,
     start |-> IF op = "step" THEN startTrain(DateAt(i)) ELSE 0,
     end |-> IF op = "step" THEN endTrain(DateAt(i)) ELSE 0,
     branch |-> r.branch, attempt |-> r.attempt, trained |-> r.trained,
     fault |-> r.fault, scaled |-> r.scaled, input |-> r.input,
     decoded |-> r.decoded,
     before |-> Before(m)]

Quiet(b) ==
    [branch |-> b, attempt |-> FALSE, trained |-> FALSE, fault |-> "none",
     scaled |-> << >>, input |-> << >>, decoded |-> NoDecode]

Logged(c, i, r) ==
    IF r.logged THEN errorLog \cup {[col |-> c, day |-> i, fault |-> r.fault]}
    ELSE errorLog

Init ==
    /\ kind \in {"arima", "lstm"}
    /\ columns \in Requested
    /\ retrain \in BOOLEAN
    /\ kind = "lstm" => retrain
    /\ \E lo \in 1..Len(Calendar), hi \in 1..Len(Calendar) :
          /\ lo <= hi
          /\ hi - lo + 1 <= MaxRows
          /\ \E missing \in UpTo((1..(hi - lo + 1)) \X ColumnNames, MaxMissing) :
                df = Table(lo, hi, missing)
    /\ testIndex = AfterCutoff
    /\ pc = "run"
    /\ col = 1
    /\ dayIx = 1
    /\ preds = << >>
    /\ forecasts = << >>
    /\ lastModel = None
    /\ lstmModelCurrent = None
    /\ lstmScalerCurrent = None
    /\ lstmCounter = 0
    /\ files = [p \in Paths |-> None]
    /\ attemptedAt = {}
    /\ trainedAt = {}
    /\ faults = 0
    /\ errorLog = {}
    /\ fittedOn = << >>
    /\ arimaResults = << >>
    /\ lstmResults = << >>
    /\ output = << >>
    /\ calls = << >>
    /\ gui = NoGui
    /\ event = [op |-> "call", col |-> 0, day |-> 0, start |-> 0, end |-> 0,
                branch |-> "", attempt |-> FALSE, trained |-> FALSE,
                fault |-> "none", scaled |-> << >>, input |-> << >>,
                decoded |-> NoDecode,
                before |-> [model |-> None, scaler |-> None, counter |-> 0,
                            files |-> [p \in Paths |-> None], npreds |-> 0,
                            preds |-> << >>, forecasts |-> << >>]]

InSweep(k) ==
    /\ pc = "run"
    /\ kind = k
    /\ col <= Len(columns)
    /\ dayIx <= Len(testIndex)

AtEndOfSweep(k) ==
    /\ pc = "run"
    /\ kind = k
    /\ col <= Len(columns)
    /\ dayIx > Len(testIndex)

\* An iteration ends with the next day, or with the exception it let escape.
Advance(m, r) ==
    /\ pc' = IF r.escaped THEN "raised" ELSE pc
    /\ dayIx' = IF r.escaped THEN dayIx ELSE dayIx + 1
    /\ preds' = r.preds
    /\ files' = r.files
    /\ faults' = faults + (IF r.fault = "none" THEN 0 ELSE 1)
    /\ errorLog' = Logged(col, dayIx, r)
    /\ fittedOn' = IF r.trained
                   THEN (Artifact(col, dayIx) :> r.fitted) @@ fittedOn
                   ELSE fittedOn
    /\ event' = Event("step", col, dayIx, m, r)

ArimaStep ==
    /\ InSweep("arima")
    /\ \E o \in ArimaFaults \cup {"none"} :
          /\ o # "none" => faults < MaxFaults
          /\ \E r \in {ArimaIteration(o)} :
                /\ r.fault = o
                /\ Advance(lastModel, r)
                /\ lastModel' = r.model
    /\ UNCHANGED << kind, columns, retrain, df, testIndex, col, forecasts, lstmModelCurrent,
                    lstmScalerCurrent, lstmCounter, attemptedAt, trainedAt >>
    /\ UNCHANGED mainVars

LstmStep ==
    /\ InSweep("lstm")
    /\ \E o \in LstmFaults \cup {"none"} :
          /\ o # "none" => faults < MaxFaults
          /\ \E r \in {LstmIteration(o)} :
                /\ r.fault = o
                /\ Advance(lstmModelCurrent, r)
                /\ lstmModelCurrent' = r.model
                /\ lstmScalerCurrent' = r.scaler
                /\ lstmCounter' = r.counter
                /\ attemptedAt' = IF r.attempt THEN attemptedAt \cup {dayIx}
                                               ELSE attemptedAt
                /\ trainedAt' = IF r.trained THEN trainedAt \cup {dayIx}
                                             ELSE trainedAt
    /\ UNCHANGED << kind, columns, retrain, df, testIndex, col, forecasts, lastModel >>
    /\ UNCHANGED mainVars

\* pd.Series(data=preds, index=testIndex) raises ValueError unless the two
\* have the same length; the next column starts with fresh locals.
\* Mutant: the cached artifact outlives the column it was trained for.
ColumnStartKeepsCache(cached) == cached

\* "lstmModelCurrent = None" and "lstmScalerCurrent = None" at the top of the
\* column loop: whatever was cached, the column starts without it.
ColumnStart(cached) == None

NextColumn ==
    /\ pc' = IF Len(preds) = Len(testIndex) THEN pc ELSE "raised"
    /\ forecasts' = IF Len(preds) = Len(testIndex)
                    THEN forecasts @@ (columns[col] :> preds)
                    ELSE forecasts
    /\ col' = col + 1
    /\ dayIx' = 1
    /\ preds' = << >>
    /\ lastModel' = None
    /\ lstmModelCurrent' = ColumnStart(lstmModelCurrent)
    /\ lstmScalerCurrent' = ColumnStart(lstmScalerCurrent)
    /\ lstmCounter' = 0
    /\ attemptedAt' = {}
    /\ trainedAt' = {}

\* Mutant: the last model is saved whatever the flag says.
ArimaSavesRegardless(flag, model) == model # None

\* "if retrain and lastModel:"
ArimaSaves(flag, model) == flag /\ model # None

\* runArima after a column's sweep: the series, then the save of lastModel.
ArimaEndColumn ==
    /\ AtEndOfSweep("arima")
    /\ NextColumn
    /\ \E o \in {"none", "dump"} :
          /\ o # "none" => faults < MaxFaults
          /\ LET saving == ArimaSaves(retrain, lastModel)
                           /\ Len(preds) = Len(testIndex)
             IN /\ o = "dump" => saving
                /\ files' = IF saving /\ o = "none"
                            THEN [files EXCEPT
                                    ![ArimaModelPath(columns[col])] = lastModel]
                            ELSE files
                /\ faults' = faults + (IF o = "none" THEN 0 ELSE 1)
                /\ errorLog' = Logged(col, 0, [logged |-> o # "none", fault |-> o])
                /\ event' = Event("endColumn", col, 0, lastModel,
                                  [Quiet(IF ~saving THEN "notSaved"
                                         ELSE IF o = "none" THEN "saved"
                                         ELSE "saveFailed")
                                     EXCEPT !.fault = o])
    /\ UNCHANGED << kind, columns, retrain, df, testIndex, fittedOn >>
    /\ UNCHANGED mainVars

\* runLstm after a column's sweep: the series.
LstmEndColumn ==
    /\ AtEndOfSweep("lstm")
    /\ NextColumn
    /\ event' = Event("endColumn", col, 0, lstmModelCurrent, Quiet(""))
    /\ UNCHANGED << kind, columns, retrain, df, testIndex, files, faults, errorLog,
                    fittedOn >>
    /\ UNCHANGED mainVars

\* return forecasts / return predictions
Return ==
    /\ pc = "run"
    /\ col > Len(columns)
    /\ pc' = "done"
    /\ event' = Event("return", 0, 0, None, Quiet(""))
    /\ UNCHANGED << kind, columns, retrain, df, testIndex, col, dayIx, preds, forecasts, lastModel,
                    lstmModelCurrent, lstmScalerCurrent, lstmCounter, files,
                    attemptedAt, trainedAt, faults, errorLog, fittedOn >>
    /\ UNCHANGED mainVars

Next ==
    \/ ArimaStep
    \/ LstmStep
    \/ ArimaEndColumn
    \/ LstmEndColumn
    \/ Return

Spec == Init /\ [][Next]_vars

\* The loops of a forecaster are run by the interpreter alone: a step that
\* can be taken is taken.
FairSpec == Spec /\ WF_vars(Next)

(***************************************************************************)
(* buildAndTrainLstm called on its own: the table is the dataframe handed  *)
(* in, col the position of the target column.  The function has no try     *)
(* block: what model.fit raises reaches the caller.                        *)
(***************************************************************************)
InitBuild ==
    /\ kind = "build"
    /\ columns \in Requested
    /\ retrain = TRUE
    /\ \E lo \in 1..Len(Calendar), hi \in 1..Len(Calendar) :
          /\ lo <= hi
          /\ hi - lo + 1 <= MaxRows
          /\ \E missing \in UpTo((1..(hi - lo + 1)) \X ColumnNames, MaxMissing) :
                df = Table(lo, hi, missing)
    /\ testIndex = AfterCutoff
    /\ pc = "run"
    /\ col \in 1..Len(columns)
    /\ dayIx = 1
    /\ preds = << >>
    /\ forecasts = << >>
    /\ lastModel = None
    /\ lstmModelCurrent = None
    /\ lstmScalerCurrent = None
    /\ lstmCounter = 0
    /\ files = [p \in Paths |-> None]
    /\ attemptedAt = {}
    /\ trainedAt = {}
    /\ faults = 0
    /\ errorLog = {}
    /\ fittedOn = << >>
    /\ arimaResults = << >>
    /\ lstmResults = << >>
    /\ output = << >>
    /\ calls = << >>
    /\ gui = NoGui
    /\ event = [op |-> "call", pairs |-> << >>, result |-> None,
                fault |-> "none"]

BuildCall ==
    /\ pc = "run"
    /\ kind = "build"
    /\ \E o \in {"none", "train"} :
          LET pairs == createSequences(AllRows, lookback, columns[col])
              model == buildAndTrainLstm(AllRows, columns[col],
                                         Artifact(col, dayIx))
          IN /\ o = "train" => (faults < MaxFaults /\ model # None)
             /\ pc' = IF o = "train" THEN "raised" ELSE "done"
             /\ faults' = faults + (IF o = "train" THEN 1 ELSE 0)
             /\ event' = [op |-> "build", pairs |-> pairs,
                          result |-> IF o = "train" THEN None ELSE model,
                          fault |-> o]
    /\ UNCHANGED << kind, columns, retrain, df, testIndex, col, dayIx, preds,
                    forecasts, lastModel, lstmModelCurrent, lstmScalerCurrent,
                    lstmCounter, files, attemptedAt, trainedAt, errorLog,
                    fittedOn >>
    /\ UNCHANGED mainVars

NextBuild == BuildCall

BuildSpec == InitBuild /\ [][NextBuild]_vars

(***************************************************************************)
(* main.py, the batch program: load the table, run both forecasters, align *)
(* their results, print the first prediction, evaluate and plot.  A        *)
(* forecaster returns one series per column over the evaluation index      *)
(* (C1); which of its entries are missing is open.  Series are keyed by    *)
(* the table row of their date.                                            *)
(***************************************************************************)
targetColumns == << "Open", "Close" >>

EvalRows == {AfterCutoff[k] : k \in 1..Len(AfterCutoff)}

Result(gaps) ==
    [c \in ColumnNames |->
        [r \in EvalRows |->
            IF << c, r >> \in gaps THEN Missing
            ELSE Value(Artifact(colIdx(c), r), None)]]

Results == {Result(g) : g \in UpTo(ColumnNames \X EvalRows, MaxGaps)}

\* The dates runArima never predicts, whatever the library does: the window
\* is invalid or holds fewer than 5 observations of the column.
Unfittable ==
    {e \in ColumnNames \X EvalRows :
        LET day == df[e[2]].date
        IN \/ WindowInvalid(day)
           \/ ArimaTooFew(Len(yTrain(day, e[1])))}

\* What runArima can return: no entry for an unfittable date.
ArimaResults ==
    {Result(g \cup Unfittable) : g \in UpTo(ColumnNames \X EvalRows, MaxGaps)}

\* The dates runLstm never predicts, whatever the library does: the window
\* is invalid or short of rows, fewer than lookback earlier rows exist, or
\* the row of the date or one of the lookback rows before it has a missing
\* value and dropna() leaves fewer than lookback + 1 rows.
Unpredictable ==
    {e \in ColumnNames \X EvalRows :
        LET day == df[e[2]].date
        IN \/ WindowInvalid(day)
           \/ LstmTooFew(Len(dfWindow(day)))
           \/ Len(pastIdx(day)) < lookback
           \/ Len(dfTestWindow(day)) < lookback + 1}

\* Mutant: runLstm predicts a date whatever its rows hold.
LstmResultsUnfiltered == Results

\* What runLstm can return: no entry for an unpredictable date.
LstmResults ==
    {Result(g \cup Unpredictable) : g \in UpTo(ColumnNames \X EvalRows, MaxGaps)}

\* series.dropna().index
dropnaIndex(series) == {r \in DOMAIN series : ~series[r].nan}

\* A set of table rows as an index: ascending by date.
AsIndex(S) ==
    LET member(r) == r \in S
    IN SelectSeq(AllRows, member)

\* Mutant: a date predicted for either column is part of the ARIMA index.
arimaIndexEither ==
    dropnaIndex(arimaResults["Open"]) \cup dropnaIndex(arimaResults["Close"])

arimaIndex ==
    dropnaIndex(arimaResults["Open"]) \cap dropnaIndex(arimaResults["Close"])

\* Mutant: the LSTM index is that of the Open series alone.
lstmIndexOpenOnly == dropnaIndex(lstmResults["Open"])

lstmIndex ==
    dropnaIndex(lstmResults["Open"]) \cap dropnaIndex(lstmResults["Close"])

Call(fn, on) == [fn |-> fn, on |-> on]
\* A metric function called on the actuals and predictions of column c.
Metric(fn, c, on) == [fn |-> fn, col |-> c, on |-> on]
Line(m, c, on) == [msg |-> m, col |-> c, on |-> on]
LogEntry(context) == [col |-> 0, day |-> 0, fault |-> context]

InitMain ==
    /\ kind = "main"
    /\ columns = targetColumns
    /\ retrain = TRUE
    /\ \E lo \in 1..Len(Calendar), hi \in 1..Len(Calendar) :
          /\ lo <= hi
          /\ hi - lo + 1 <= MaxRows
          /\ \E missing \in UpTo((1..(hi - lo + 1)) \X {"Open"}, MaxMissing) :
                df = Table(lo, hi, missing)
    /\ \A r \in Rows : dayofweek(df[r].date) < 5
    /\ Len(AfterCutoff) <= MaxEvalDates
    /\ testIndex = << >>
    /\ pc = "load"
    /\ col = 1
    /\ dayIx = 1
    /\ preds = << >>
    /\ forecasts = << >>
    /\ lastModel = None
    /\ lstmModelCurrent = None
    /\ lstmScalerCurrent = None
    /\ lstmCounter = 0
    /\ files = [p \in Paths |-> None]
    /\ attemptedAt = {}
    /\ trainedAt = {}
    /\ faults = 0
    /\ errorLog = {}
    /\ fittedOn = << >>
    /\ arimaResults = << >>
    /\ lstmResults = << >>
    /\ output = << >>
    /\ calls = << >>
    /\ gui = NoGui
    /\ event = [op |-> "start", fault |-> "none"]

\* Mutant: the handler logs and the program goes on.
AfterLoadErrorContinue == "runArima"

\* except Exception as e: logError(e, context="Data Loading"); raise
AfterLoadError == "raised"

\* df = loadNifty50Yfinance(): the loader logs what it catches and raises it
\* again, and so does main.py.
MainLoad ==
    /\ kind = "main"
    /\ pc = "load"
    /\ \E o \in {"none", "download"} :
          /\ o # "none" => faults < MaxFaults
          /\ pc' = IF o = "none" THEN "runArima" ELSE AfterLoadError
          /\ errorLog' = IF o = "none" THEN errorLog
                         ELSE errorLog \cup {LogEntry("load_nifty50_yfinance"),
                                             LogEntry("Data Loading")}
          /\ faults' = faults + (IF o = "none" THEN 0 ELSE 1)
          /\ event' = [op |-> "load", fault |-> o]
    /\ calls' = Append(calls, Call("loadNifty50Yfinance", {}))
    /\ UNCHANGED << gui, kind, columns, df, testIndex, col, arimaResults,
                    lstmResults, output >>
    /\ UNCHANGED sweepVars

\* arimaResults = runArima(df, columns=targetColumns)
MainRunArima ==
    /\ kind = "main"
    /\ pc = "runArima"
    /\ arimaResults' \in ArimaResults
    /\ calls' = Append(calls, Call("runArima", EvalRows))
    /\ pc' = "runLstm"
    /\ event' = [op |-> "runArima", fault |-> "none"]
    /\ UNCHANGED << gui, kind, columns, df, testIndex, col, lstmResults, output,
                    faults, errorLog >>
    /\ UNCHANGED sweepVars

\* lstmResults = runLstm(df, columns=targetColumns)
MainRunLstm ==
    /\ kind = "main"
    /\ pc = "runLstm"
    /\ lstmResults' \in LstmResults
    /\ calls' = Append(calls, Call("runLstm", EvalRows))
    /\ pc' = "align"
    /\ event' = [op |-> "runLstm", fault |-> "none"]
    /\ UNCHANGED << gui, kind, columns, df, testIndex, col, arimaResults, output,
                    faults, errorLog >>
    /\ UNCHANGED sweepVars

\* Lines 91-108: the dates all four series have a prediction for, and the
\* first of them printed.
MainAlign ==
    /\ kind = "main"
    /\ pc = "align"
    /\ LET common == AsIndex(arimaIndex \cap lstmIndex)
       IN /\ testIndex' = common
          /\ output' =
                IF Len(common) > 0
                THEN output
                       \o << Line("predicted_prices_header", "", {common[1]}) >>
                       \o [k \in 1..Len(targetColumns) |->
                             Line("predicted_price_line", targetColumns[k],
                                  {common[1]})]
                ELSE Append(output, Line("no_test_index", "", {}))
    /\ pc' = "evaluate"
    /\ col' = 1
    /\ event' = [op |-> "align", fault |-> "none"]
    /\ UNCHANGED << gui, kind, columns, df, arimaResults, lstmResults, calls,
                    faults, errorLog >>
    /\ UNCHANGED sweepVars

\* The metric functions of scikit-learn refuse a missing value.
MetricRaises(c, on) == \E r \in on : df[r].val[c] = NaN

\* Mutant: the metrics are computed whatever the valid dates are.
actualsEmptyNever(validIndex) == FALSE

\* "if not actuals.empty: ... else:" with actuals = actuals.loc[validIndex]
actualsEmpty(validIndex) == validIndex = {}

\* Lines 115-140, one iteration of "for col in targetColumns".
MainEvaluate ==
    /\ kind = "main"
    /\ pc = "evaluate"
    /\ LET c == targetColumns[col]
           actuals == {testIndex[k] : k \in 1..Len(testIndex)}
           arimaPreds == actuals \cap dropnaIndex(arimaResults[c])
           lstmPreds == actuals \cap dropnaIndex(lstmResults[c])
           validIndex == (actuals \cap arimaPreds) \cap lstmPreds
           next == IF col = Len(targetColumns) THEN "plot" ELSE "evaluate"
       IN IF actualsEmpty(validIndex)
          THEN /\ output' = Append(output, Line("no_valid_forecast", c, {}))
               /\ calls' = calls
               /\ col' = col + 1
               /\ pc' = next
               /\ event' = [op |-> "evaluate", fault |-> "none"]
          ELSE IF MetricRaises(c, validIndex)
          THEN /\ output' = output
               /\ calls' = Append(calls,
                                   Metric("mean_squared_error", c, validIndex))
               /\ col' = col
               /\ pc' = "raised"
               /\ event' = [op |-> "evaluate", fault |-> "metric"]
          ELSE /\ output' = output
                    \o << Line("forecast_results_header", c, validIndex),
                          Line("forecast_metrics_ARIMA", c, validIndex),
                          Line("forecast_metrics_LSTM", c, validIndex) >>
               /\ calls' = calls
                    \o << Metric("mean_squared_error", c, validIndex),
                          Metric("mean_squared_error", c, validIndex),
                          Metric("mean_absolute_percentage_error", c,
                                 validIndex),
                          Metric("mean_absolute_percentage_error", c,
                                 validIndex) >>
               /\ col' = col + 1
               /\ pc' = next
               /\ event' = [op |-> "evaluate", fault |-> "none"]
    /\ UNCHANGED << gui, kind, columns, df, testIndex, arimaResults, lstmResults,
                    faults, errorLog >>
    /\ UNCHANGED sweepVars

\* Lines 147-187: the results frame and one saved plot per column.
MainPlot ==
    /\ kind = "main"
    /\ pc = "plot"
    /\ output' = output \o [k \in 1..Len(targetColumns) |->
                              Line("forecast_plot", targetColumns[k], EvalRows)]
    /\ pc' = "done"
    /\ event' = [op |-> "plot", fault |-> "none"]
    /\ UNCHANGED << gui, kind, columns, df, testIndex, col, arimaResults,
                    lstmResults, calls, faults, errorLog >>
    /\ UNCHANGED sweepVars

NextMain ==
    \/ MainLoad
    \/ MainRunArima
    \/ MainRunLstm
    \/ MainAlign
    \/ MainEvaluate
    \/ MainPlot

MainSpec == InitMain /\ [][NextMain]_vars

(***************************************************************************)
(* GUICode/Code/stockPredictorGui.py: one run of the script of the         *)
(* interactive single-date predictor.  The model files it loads are those  *)
(* the forecasters wrote (arimaModel<Col>.pkl, lstmModel<Col>.keras),      *)
(* deployed to its models folder; df is what the provider answers, after   *)
(* dropna() and sort_index().                                              *)
(***************************************************************************)
\* "if len(df) < 61": the 60 rows of the input and one more.
guiMinRows == lookback + 1

\* scaler = MinMaxScaler(); scaler.fit_transform(df[["Open", "Close"]]): a
\* scaler of no column's sweep, fitted on the n rows just downloaded.
NewlyFitted(n) == << Len(targetColumns) + 1, n >>

\* scaledDf[["Open", "Close"]].values[-lookback:]
guiSequence == SubSeq(AllRows, Max(Len(df) - lookback, 0) + 1, Len(df))

\* arimaModelPath[col], lstmModelPath[col]
guiArimaModelPath(c) == ArimaModelPath(c)
guiLstmModelPath(c) == LstmModelPath(c)

\* What a forecaster run left in a file: an artifact of the file's column.
PersistedIn(p) ==
    LET c == CHOOSE k \in 1..Len(columns) :
                p \in {ArimaModelPath(columns[k]), LstmModelPath(columns[k]),
                       LstmScalerPath(columns[k])}
    IN Artifact(c, 1)

guiFrame == << kind, columns, df, testIndex, arimaResults, lstmResults >>

InitGui ==
    /\ kind = "gui"
    /\ columns = targetColumns
    /\ retrain = TRUE
    /\ \E n \in lookback..(lookback + 2) : df = Table(1, n, {})
    /\ testIndex = << >>
    /\ pc = "script"
    /\ col = 1
    /\ dayIx = 1
    /\ preds = << >>
    /\ forecasts = << >>
    /\ lastModel = None
    /\ lstmModelCurrent = None
    /\ lstmScalerCurrent = None
    /\ lstmCounter = 0
    /\ \E present \in SUBSET Paths :
          files = [p \in Paths |-> IF p \in present THEN PersistedIn(p) ELSE None]
    /\ attemptedAt = {}
    /\ trainedAt = {}
    /\ faults = 0
    /\ errorLog = {}
    /\ fittedOn = << >>
    /\ arimaResults = << >>
    /\ lstmResults = << >>
    /\ output = << >>
    /\ calls = << >>
    /\ \E t \in {"Select", "ARIMA", "LSTM"}, w \in BOOLEAN, b \in BOOLEAN,
          a \in BOOLEAN :
          gui = [typeSelect |-> t, weekend |-> w, button |-> b,
                 actualKnown |-> a, predictions |-> << >>, scaler |-> None,
                 xInput |-> << >>, actual |-> "unbound"]
    /\ event = [op |-> "start", fault |-> "none"]

\* except Exception as e: logError(LOG_CTX["prediction_block"], e);
\* st.error(msg["prediction_failed"])
GuiExcept(shown) == Append(shown, Line("prediction_failed", "", {}))

\* Lines 119-130: the weekend check, the button, the model selector.
GuiScript ==
    /\ kind = "gui"
    /\ pc = "script"
    /\ IF gui.weekend
       THEN /\ output' = Append(output, Line("weekend_error", "", {}))
            /\ pc' = "stopped"
       ELSE IF ~gui.button
       THEN /\ output' = output
            /\ pc' = "idle"
       ELSE IF gui.typeSelect = "Select"
       THEN /\ output' = Append(output, Line("select_model_warning", "", {}))
            /\ pc' = "warned"
       ELSE /\ output' = output
            /\ pc' = "download"
    /\ event' = [op |-> "script", fault |-> "none"]
    /\ UNCHANGED << col, calls, gui, faults, errorLog >>
    /\ UNCHANGED guiFrame
    /\ UNCHANGED sweepVars

\* Lines 148-162: the download and the check of its length.
GuiDownload ==
    /\ kind = "gui"
    /\ pc = "download"
    /\ \E o \in {"none", "download"} :
          /\ o # "none" => faults < MaxFaults
          /\ faults' = faults + (IF o = "none" THEN 0 ELSE 1)
          /\ event' = [op |-> "download", fault |-> o]
          /\ IF o # "none"
             THEN /\ output' = GuiExcept(output)
                  /\ errorLog' = errorLog \cup {LogEntry("prediction_block")}
                  /\ pc' = "failed"
             ELSE IF Len(df) < guiMinRows
             THEN /\ output' = Append(output, Line("insufficient_data", "", {}))
                  /\ errorLog' = errorLog
                  /\ pc' = "stopped"
             ELSE /\ output' = output
                  /\ errorLog' = errorLog
                  /\ pc' = IF gui.typeSelect = "ARIMA" THEN "predict" ELSE "scale"
    /\ calls' = Append(calls, Call("yf.download", {}))
    /\ col' = 1
    /\ UNCHANGED gui
    /\ UNCHANGED guiFrame
    /\ UNCHANGED sweepVars

\* Lines 218-219: scaler = MinMaxScaler(); scaler.fit_transform(...)
guiScaler == NewlyFitted(Len(df))

\* Lines 209-230 of the LSTM branch: the scaler and the input sequence.
GuiScale ==
    /\ kind = "gui"
    /\ pc = "scale"
    /\ \E o \in {"none", "fitScaler"} :
          /\ o # "none" => faults < MaxFaults
          /\ faults' = faults + (IF o = "none" THEN 0 ELSE 1)
          /\ event' = [op |-> "scale", fault |-> o]
          /\ IF o # "none"
             THEN /\ output' = GuiExcept(output)
                  /\ errorLog' = errorLog \cup {LogEntry("prediction_block")}
                  /\ pc' = "failed"
                  /\ gui' = gui
             ELSE /\ output' = output
                  /\ errorLog' = errorLog
                  /\ pc' = "predict"
                  /\ gui' = [gui EXCEPT !.scaler = guiScaler,
                                        !.xInput = guiSequence]
    /\ calls' = Append(calls, Call("fit_transform", {}))
    /\ UNCHANGED col
    /\ UNCHANGED guiFrame
    /\ UNCHANGED sweepVars

\* order = model.model.order: the order of the loaded model.
guiOrder(model) == model

\* predictions[col] of the ARIMA branch (lines 181-190) and of the LSTM
\* branch (lines 240-260), from the model loaded for the column.
guiPrediction(model) ==
    IF gui.typeSelect = "ARIMA"
    THEN [model |-> model, order |-> guiOrder(model), scaler |-> None,
          input |-> AllRows]
    ELSE [model |-> model, order |-> None, scaler |-> gui.scaler,
          input |-> gui.xInput]

\* One iteration of 'for col in ["Open", "Close"]' of either branch: load
\* the model of the column, refit or predict, store the prediction.
GuiPredictColumn ==
    /\ kind = "gui"
    /\ pc = "predict"
    /\ LET c == targetColumns[col]
           path == IF gui.typeSelect = "ARIMA" THEN guiArimaModelPath(c)
                   ELSE guiLstmModelPath(c)
           library == IF gui.typeSelect = "ARIMA" THEN "fit" ELSE "predict"
       IN \E o \in {"none", "load", library} :
             /\ o = "load" <=> files[path] = None
             /\ o = library => faults < MaxFaults
             /\ faults' = faults + (IF o = library THEN 1 ELSE 0)
             /\ event' = [op |-> "predict", fault |-> o]
             /\ calls' = Append(calls, Call("load", {}))
             /\ IF o # "none"
                THEN /\ output' = GuiExcept(output)
                     /\ errorLog' = errorLog \cup {LogEntry("prediction_block")}
                     /\ pc' = "failed"
                     /\ col' = col
                     /\ gui' = gui
                ELSE /\ output' = output
                     /\ errorLog' = errorLog
                     /\ pc' = IF col = Len(targetColumns) THEN "downloadFull"
                              ELSE "predict"
                     /\ col' = col + 1
                     /\ gui' = [gui EXCEPT !.predictions =
                                   @ @@ (c :> guiPrediction(files[path]))]
    /\ UNCHANGED guiFrame
    /\ UNCHANGED sweepVars

\* Lines 268-269: the second download, for the actual value and the plot.
GuiDownloadFull ==
    /\ kind = "gui"
    /\ pc = "downloadFull"
    /\ \E o \in {"none", "download"} :
          /\ o # "none" => faults < MaxFaults
          /\ faults' = faults + (IF o = "none" THEN 0 ELSE 1)
          /\ event' = [op |-> "downloadFull", fault |-> o]
          /\ IF o # "none"
             THEN /\ output' = GuiExcept(output)
                  /\ errorLog' = errorLog \cup {LogEntry("prediction_block")}
                  /\ pc' = "failed"
             ELSE /\ output' = output
                  /\ errorLog' = errorLog
                  /\ pc' = "show"
    /\ calls' = Append(calls, Call("yf.download", {}))
    /\ col' = 1
    /\ UNCHANGED gui
    /\ UNCHANGED guiFrame
    /\ UNCHANGED sweepVars

\* Lines 274-314, one iteration of the display loop: the prediction, the
\* actual value if the provider has it (the inner handler warns when the
\* lookup raises), the plot when actual is not None.  "actual" is a local of
\* the script: unbound until a lookup has assigned it.
GuiShowColumn ==
    /\ kind = "gui"
    /\ pc = "show"
    /\ LET c == targetColumns[col]
           shown == output \o << Line("prediction_header", c, {}),
                                 Line("prediction_success", c, {}) >>
           next == IF col = Len(targetColumns) THEN "summary" ELSE "show"
       IN \E o \in {"none", "actual", "plot"} :
             /\ o # "none" => faults < MaxFaults
             /\ o = "plot" => gui.actualKnown
             /\ faults' = faults + (IF o = "none" THEN 0 ELSE 1)
             /\ event' = [op |-> "show", fault |-> o]
             /\ IF o = "actual"
                THEN LET warned == Append(shown, Line("actual_fetch_error", c, {}))
                         logged == errorLog \cup {LogEntry("fetching_actuals")}
                     IN IF gui.actual = "unbound"
                        THEN /\ output' = GuiExcept(warned)
                             /\ errorLog' = logged \cup {LogEntry("prediction_block")}
                             /\ pc' = "failed"
                             /\ col' = col
                             /\ gui' = gui
                        ELSE /\ output' =
                                   IF gui.actual = "value"
                                   THEN Append(warned, Line("pyplot", c, {}))
                                   ELSE warned
                             /\ errorLog' = logged
                             /\ pc' = next
                             /\ col' = col + 1
                             /\ gui' = gui
                ELSE IF ~gui.actualKnown
                THEN /\ output' = Append(shown, Line("actual_data_missing", c, {}))
                     /\ errorLog' = errorLog
                     /\ pc' = next
                     /\ col' = col + 1
                     /\ gui' = [gui EXCEPT !.actual = "None"]
                ELSE IF o = "plot"
                THEN /\ output' = GuiExcept(Append(shown, Line("actual_success", c, {})))
                     /\ errorLog' = errorLog \cup {LogEntry("prediction_block")}
                     /\ pc' = "failed"
                     /\ col' = col
                     /\ gui' = [gui EXCEPT !.actual = "value"]
                ELSE /\ output' = shown \o << Line("actual_success", c, {}),
                                             Line("pyplot", c, {}) >>
                     /\ errorLog' = errorLog
                     /\ pc' = next
                     /\ col' = col + 1
                     /\ gui' = [gui EXCEPT !.actual = "value"]
    /\ UNCHANGED calls
    /\ UNCHANGED guiFrame
    /\ UNCHANGED sweepVars

\* Lines 321-378: the summary table.
GuiSummary ==
    /\ kind = "gui"
    /\ pc = "summary"
    /\ \E o \in {"none", "summary"} :
          /\ o # "none" => faults < MaxFaults
          /\ faults' = faults + (IF o = "none" THEN 0 ELSE 1)
          /\ event' = [op |-> "summary", fault |-> o]
          /\ IF o # "none"
             THEN /\ output' = GuiExcept(output)
                  /\ errorLog' = errorLog \cup {LogEntry("prediction_block")}
                  /\ pc' = "failed"
             ELSE /\ output' = output \o << Line("summary_table_title", "", {}),
                                           Line("summary_table", "", {}),
                                           Line("rmseMape_explanation", "", {}) >>
                  /\ errorLog' = errorLog
                  /\ pc' = "done"
    /\ UNCHANGED << col, calls, gui >>
    /\ UNCHANGED guiFrame
    /\ UNCHANGED sweepVars

NextGui ==
    \/ GuiScript
    \/ GuiDownload
    \/ GuiScale
    \/ GuiPredictColumn
    \/ GuiDownloadFull
    \/ GuiShowColumn
    \/ GuiSummary

GuiSpec == InitGui /\ [][NextGui]_vars

(***************************************************************************)
(* Code/dataHandler/dataHandler.py: one call of loadNifty50Yfinance on     *)
(* what the provider answers, rows in any order.  Of the columns only the  *)
(* targets are kept in the model; COVID_dummy and zScore_Close are added   *)
(* columns and remove no row.                                              *)
(***************************************************************************)
\* nifty.history(...): at most MaxProviderRows rows of distinct dates, in
\* any order, a cell missing here and there.
ProviderDates == {Calendar[k] : k \in 1..(MaxProviderRows + 1)}

ProviderIndexes ==
    {s \in UNION {[1..n -> ProviderDates] : n \in 1..MaxProviderRows} :
        \A i, j \in 1..Len(s) : i # j => s[i] # s[j]}

ProviderFrame(index, missing) ==
    [i \in 1..Len(index) |->
        [date |-> index[i],
         val  |-> [c \in ColumnNames |->
                      IF << i, c >> \in missing THEN NaN ELSE Price(i, c)]]]

\* df[df.index.dayofweek < 5]
weekdaysOnly(rows) ==
    LET weekday(r) == dayofweek(r.date) < 5
    IN SelectSeq(rows, weekday)

\* df.dropna(subset=["Close"], inplace=True)
dropnaClose(rows) ==
    LET present(r) == r.val["Close"] # NaN
    IN SelectSeq(rows, present)

\* Mutant: the rows are returned in the order the provider gave them.
sort_indexSkipped(rows) == rows

\* df.sort_index(inplace=True)
sort_index(rows) ==
    LET earlier(a, b) == a.date < b.date
    IN SortSeq(rows, earlier)

\* df.index.is_monotonic_increasing
is_monotonic_increasing(rows) ==
    \A i \in 1..(Len(rows) - 1) : rows[i].date <= rows[i + 1].date

\* The body of the try block, when nothing raises.
loadNifty50Yfinance(rows) == sort_index(dropnaClose(weekdaysOnly(rows)))

InitLoad ==
    /\ kind = "load"
    /\ columns = targetColumns
    /\ retrain = TRUE
    /\ \E index \in ProviderIndexes :
          \E missing \in UpTo((1..Len(index)) \X ColumnNames, MaxMissing) :
             df = ProviderFrame(index, missing)
    /\ testIndex = << >>
    /\ pc = "call"
    /\ col = 1
    /\ dayIx = 1
    /\ preds = << >>
    /\ forecasts = << >>
    /\ lastModel = None
    /\ lstmModelCurrent = None
    /\ lstmScalerCurrent = None
    /\ lstmCounter = 0
    /\ files = [p \in Paths |-> None]
    /\ attemptedAt = {}
    /\ trainedAt = {}
    /\ faults = 0
    /\ errorLog = {}
    /\ fittedOn = << >>
    /\ arimaResults = << >>
    /\ lstmResults = << >>
    /\ output = << >>
    /\ calls = << >>
    /\ gui = NoGui
    /\ event = [op |-> "start", provider |-> << >>, fault |-> "none"]

\* loadNifty50Yfinance(): the download may raise; the label slice of line 65
\* (df.loc["2020-03-01":"2020-12-31", ...], on the frame not yet sorted)
\* raises KeyError in pandas 2 when the index is not monotonic and works in
\* pandas 1, so on such a frame either happens.  What is raised is logged
\* and raised again.
LoadCall ==
    /\ kind = "load"
    /\ pc = "call"
    /\ \E o \in {"none", "download", "covidSlice"} :
          /\ o = "download" => faults < MaxFaults
          /\ o = "covidSlice" => ~is_monotonic_increasing(weekdaysOnly(df))
          /\ faults' = faults + (IF o = "download" THEN 1 ELSE 0)
          /\ df' = IF o = "none" THEN loadNifty50Yfinance(df) ELSE df
          /\ pc' = IF o = "none" THEN "returned" ELSE "raised"
          /\ errorLog' = IF o = "none" THEN errorLog
                         ELSE errorLog \cup {LogEntry("load_nifty50_yfinance")}
          /\ event' = [op |-> "load", provider |-> df, fault |-> o]
    /\ UNCHANGED << kind, columns, testIndex, col, arimaResults, lstmResults,
                    output, calls, gui >>
    /\ UNCHANGED sweepVars

NextLoad == LoadCall

LoadSpec == InitLoad /\ [][NextLoad]_vars

(***************************************************************************)
(* What the claims speak of, stated on the table and the results.          *)
(***************************************************************************)
InColumn == pc = "run" /\ col <= Len(columns)
Stepped(k) == kind = k /\ event.op = "step"

\* The series of column position c so far: returned, or still being built.
SeriesOf(c) == IF c < col THEN forecasts[columns[c]] ELSE preds

\* The window of evaluation date i as section 4.1 of the specification has it.
WindowStart(i) == Max(indexMin, MinusYears(DateAt(i), rollingWindowYears))
WindowEnd(i) == MinusOneDay(DateAt(i))
WindowIsValid(i) == WindowStart(i) < WindowEnd(i)
InWindow(i) ==
    LET first == WindowStart(i)
        last == WindowEnd(i)
    IN {r \in Rows : first <= df[r].date /\ df[r].date <= last}

\* Non-missing observations of column c, and jointly non-missing rows.
Observations(i, c) == Cardinality({r \in InWindow(i) : df[r].val[c] # NaN})
JointRows(i) ==
    Cardinality({r \in InWindow(i) : \A c \in ColumnNames : df[r].val[c] # NaN})

\* Evaluation date i passes runLstm's window and row-count checks.
PassesLstmChecks(i) == WindowIsValid(i) /\ JointRows(i) >= lookback + 1
ValidLstmDates(n) == {i \in 1..n : PassesLstmChecks(i)}

(***************************************************************************)
(* C1: for both forecasters and every requested column the returned series *)
(* has exactly one entry per date of the evaluation index, in evaluation-  *)
(* index order, whatever skips and failures occur: every iteration appends *)
(* exactly one entry, at the position of its date.                         *)
(***************************************************************************)
C1_OneEntryPerDate ==
    /\ pc # "raised"
    /\ InColumn => Len(preds) = dayIx - 1
    /\ event.op = "step" =>
          /\ event.before.npreds = event.day - 1
          /\ Len(preds) = event.day
    /\ \A c \in DOMAIN forecasts : Len(forecasts[c]) = Len(testIndex)
    /\ pc = "done" => DOMAIN forecasts = ColumnNames

\* A returned runLstm result with a logged failure and a series that mixes
\* missing and non-missing entries.
C1_Witness ==
    /\ pc = "done"
    /\ kind = "lstm"
    /\ errorLog # {}
    /\ \E c \in DOMAIN forecasts :
          \E i, j \in 1..Len(forecasts[c]) :
             forecasts[c][i].nan /\ ~forecasts[c][j].nan

(***************************************************************************)
(* C2: an exception raised by order search, fit or forecast (runArima) or  *)
(* by training or prediction (runLstm) at one date never reaches the       *)
(* caller: that date's entry is missing, the sweep goes on with the next   *)
(* date, and every column is returned.                                     *)
(***************************************************************************)
C2_FailureIsolated ==
    /\ pc # "raised"
    /\ \A e \in errorLog :
          e.day > 0 =>
             /\ e.col <= col
             /\ e.col = col => (e.day < dayIx /\ e.day <= Len(preds))
             /\ SeriesOf(e.col)[e.day] = Missing
    /\ (event.op = "step" /\ event.fault # "none") =>
          /\ pc = "run"
          /\ dayIx = event.day + 1
          /\ Len(preds) = event.before.npreds + 1
    /\ pc = "done" =>
          \A c \in ColumnNames :
             c \in DOMAIN forecasts /\ Len(forecasts[c]) = Len(testIndex)

\* runArima has returned; a fit raised at one date of the first column, and a
\* later date of that column and a date of the next column have forecasts.
C2_Witness ==
    /\ pc = "done"
    /\ kind = "arima"
    /\ \E e \in errorLog :
          /\ e.col = 1
          /\ e.day > 0
          /\ \E j \in (e.day + 1)..Len(testIndex) : ~forecasts[columns[1]][j].nan
          /\ \E j \in 1..Len(testIndex) : ~forecasts[columns[2]][j].nan

(***************************************************************************)
(* C3: across N dates that pass the checks of one column, every training   *)
(* step succeeding, runLstm trains on the first of them and on every one   *)
(* at which the counter is a multiple of retrainInterval:                  *)
(* N \div retrainInterval + 1 times when N >= 1 and retrainInterval > 1.   *)
(***************************************************************************)
AllTrainingsSucceeded == attemptedAt = trainedAt
CeilDiv(n, k) == (n + k - 1) \div k
Retrainings(n) ==
    (n \div retrainInterval) + (IF n >= 1 /\ retrainInterval > 1 THEN 1 ELSE 0)

C3_RetrainCount ==
    (kind = "lstm" /\ InColumn /\ AllTrainingsSucceeded) =>
        Cardinality(trainedAt) =
            Retrainings(Cardinality(ValidLstmDates(dayIx - 1)))

\* The claim as stated: ceil(N / retrainInterval) retrainings (here in runs
\* in which nothing raised at all).
C3_CeilRetrainCount ==
    (kind = "lstm" /\ InColumn /\ AllTrainingsSucceeded /\ errorLog = {}) =>
        Cardinality(trainedAt) =
            CeilDiv(Cardinality(ValidLstmDates(dayIx - 1)), retrainInterval)

\* Two dates passed the checks and both trained.
C3_Witness ==
    /\ kind = "lstm"
    /\ InColumn
    /\ AllTrainingsSucceeded
    /\ Cardinality(ValidLstmDates(dayIx - 1)) >= retrainInterval
    /\ Cardinality(trainedAt) >= 2

(***************************************************************************)
(* C4: on every date that passes runLstm's window and row-count checks the *)
(* counter goes up by exactly one, and training is entered exactly when    *)
(* the incremented counter is a multiple of retrainInterval or the cache   *)
(* holds no model.                                                         *)
(***************************************************************************)
C4_RetrainTrigger ==
    (Stepped("lstm") /\ PassesLstmChecks(event.day)) =>
        /\ lstmCounter = event.before.counter + 1
        /\ event.attempt <=>
              (lstmCounter % retrainInterval = 0 \/ event.before.model = None)
        /\ (event.day \in attemptedAt) <=> event.attempt

\* A scheduled retrain on a Trained cache.
C4_Witness ==
    /\ Stepped("lstm")
    /\ PassesLstmChecks(event.day)
    /\ event.attempt
    /\ event.before.model # None

(***************************************************************************)
(* C5: when the fit of the scaler or the training of the model raises, the *)
(* cached model and scaler are what they were before the step, the date's  *)
(* entry is missing, and the sweep goes on with the next date.             *)
(***************************************************************************)
C5_TrainFailureKeepsCache ==
    (Stepped("lstm") /\ event.fault \in LstmTrainFaults) =>
        /\ lstmModelCurrent = event.before.model
        /\ lstmScalerCurrent = event.before.scaler
        /\ Len(preds) = event.day
        /\ preds[event.day] = Missing
        /\ pc = "run"
        /\ dayIx = event.day + 1

\* Training raised on a Trained cache.
C5_Witness ==
    /\ Stepped("lstm")
    /\ event.fault \in LstmTrainFaults
    /\ event.before.model # None
    /\ lstmModelCurrent # None

(***************************************************************************)
(* C6: on a date of runLstm that passes the checks and is not a retrain    *)
(* step, the cached pair is the one stored by the column's most recent     *)
(* successful training, the forecast is made with that pair, and the step  *)
(* changes neither the cache nor any persisted file.                       *)
(***************************************************************************)
LastTrained == IF trainedAt = {} THEN None ELSE Artifact(col, SetMax(trainedAt))

C6_CacheReusedVerbatim ==
    (Stepped("lstm") /\ PassesLstmChecks(event.day) /\ ~event.attempt) =>
        /\ event.before.model = LastTrained
        /\ event.before.scaler = LastTrained
        /\ LastTrained # None
        /\ lstmModelCurrent = event.before.model
        /\ lstmScalerCurrent = event.before.scaler
        /\ files = event.before.files
        /\ ~preds[event.day].nan =>
              preds[event.day] = Value(LastTrained, LastTrained)

\* A forecast on a date between retrains, after the column trained twice.
C6_Witness ==
    /\ Stepped("lstm")
    /\ ~event.attempt
    /\ event.branch = "predicted"
    /\ Cardinality(trainedAt) >= 2

(***************************************************************************)
(* C7: a date of runLstm whose window is invalid or holds fewer than       *)
(* lookback + 1 jointly non-missing rows gets a missing entry and leaves   *)
(* the counter and the cache alone; the counter always equals the number   *)
(* of dates of the current column that passed both checks.                 *)
(***************************************************************************)
C7_SkipLeavesCounter ==
    /\ (kind = "lstm" /\ InColumn) =>
          lstmCounter = Cardinality(ValidLstmDates(dayIx - 1))
    /\ (Stepped("lstm") /\ ~PassesLstmChecks(event.day)) =>
          /\ preds[event.day] = Missing
          /\ lstmCounter = event.before.counter
          /\ lstmModelCurrent = event.before.model
          /\ lstmScalerCurrent = event.before.scaler
          /\ ~event.attempt

\* A date skipped for too few rows after an earlier date trained a model.
C7_Witness ==
    /\ Stepped("lstm")
    /\ WindowIsValid(event.day)
    /\ JointRows(event.day) < lookback + 1
    /\ lstmCounter > 0
    /\ lstmModelCurrent # None

(***************************************************************************)
(* C8: both forecasters take startTrain = max(minDate, evalDate - span)    *)
(* and endTrain = evalDate - 1 day, and skip the date as an invalid window *)
(* (missing entry, sweep goes on) exactly when startTrain >= endTrain,     *)
(* whatever the table holds.                                               *)
(***************************************************************************)
C8_WindowSelection ==
    event.op = "step" =>
        /\ event.start = WindowStart(event.day)
        /\ event.end = WindowEnd(event.day)
        /\ (event.branch = "invalidWindow") <=> (WindowStart(event.day) >= WindowEnd(event.day))
        /\ event.branch = "invalidWindow" =>
              /\ preds[event.day] = Missing
              /\ ~event.attempt
              /\ pc = "run"
              /\ dayIx = event.day + 1

\* The day after the table's first date: startTrain = endTrain.
C8_Witness ==
    /\ event.op = "step"
    /\ event.branch = "invalidWindow"
    /\ event.start = event.end
    /\ event.day > 1

(***************************************************************************)
(* C9: a date whose window is valid but holds fewer non-missing rows than  *)
(* the minimum (5 values of the column for runArima, lookback + 1 jointly  *)
(* non-missing rows for runLstm) gets a missing entry; nothing is searched,*)
(* fitted or trained for it and nothing raises.                            *)
(***************************************************************************)
TooFewRows(i) ==
    IF kind = "arima" THEN Observations(i, columns[col]) < minObservations
    ELSE JointRows(i) < lookback + 1

C9_TooFewRowsIsMissing ==
    (event.op = "step" /\ WindowIsValid(event.day) /\ TooFewRows(event.day)) =>
        /\ preds[event.day] = Missing
        /\ event.branch = "insufficient"
        /\ ~event.attempt
        /\ event.fault = "none"
        /\ pc = "run"
        /\ lastModel = event.before.model \/ kind = "lstm"
        /\ lstmModelCurrent = event.before.model \/ kind = "arima"
        /\ files = event.before.files
        /\ \A e \in errorLog : ~(e.col = event.col /\ e.day = event.day)

\* runLstm on a window of exactly lookback jointly non-missing rows.
C9_Witness ==
    /\ Stepped("lstm")
    /\ WindowIsValid(event.day)
    /\ JointRows(event.day) = lookback

(***************************************************************************)
(* C10: in runArima every date with a valid window and at least 5          *)
(* observations runs its own order search and fit and appends that fit's   *)
(* forecast; no entry comes from a model fitted at another date, and a     *)
(* failure at a date gives a missing entry there even when an earlier fit  *)
(* succeeded.                                                              *)
(***************************************************************************)
C10_FreshFitPerDate ==
    kind = "arima" =>
        /\ InColumn =>
              \A i \in 1..Len(preds) :
                 /\ ~preds[i].nan => preds[i] = Value(Artifact(col, i), None)
                 /\ ~preds[i].nan =>
                       (WindowIsValid(i) /\ Observations(i, columns[col]) >= minObservations)
        /\ (event.op = "step" /\ WindowIsValid(event.day)
              /\ Observations(event.day, columns[col]) >= minObservations) =>
              /\ event.attempt
              /\ event.fault = "none" => preds[event.day] = Value(Artifact(col, event.day), None)
              /\ event.fault # "none" => preds[event.day] = Missing

\* A fit raised at a date after an earlier date of the column was fitted.
C10_Witness ==
    /\ Stepped("arima")
    /\ event.fault \in ArimaFaults
    /\ event.before.model # None
    /\ preds[event.day] = Missing

(***************************************************************************)
(* C11: runArima with retrain=True writes nothing during a column's sweep; *)
(* after the sweep it writes the column's model file once, exactly when at *)
(* least one date of the column completed its fit and one-step forecast,   *)
(* and the model written is that of the last such date, whatever failed or *)
(* was skipped after it.                                                   *)
(***************************************************************************)
\* The dates of column position c that hold a forecast.
Forecasted(c) == {i \in 1..Len(SeriesOf(c)) : ~SeriesOf(c)[i].nan}

\* The dates of column position c at which ARIMA(...).fit() returned: those
\* with a forecast, and those whose forecast call raised after the fit.
FitSucceeded(c) ==
    Forecasted(c) \cup
    {e.day : e \in {l \in errorLog : l.col = c /\ l.fault = "forecast"}}

SaveTried == event.branch \in {"saved", "saveFailed"}

PathsOf(c) == {ArimaModelPath(c), LstmModelPath(c), LstmScalerPath(c)}

C12_DistinctPaths ==
    pc = "done" =>
        \A a \in 1..Len(columns) :
           /\ \A b \in 1..Len(columns) :
                 columns[a] # columns[b] =>
                    PathsOf(columns[a]) \cap PathsOf(columns[b]) = {}
           /\ \A p \in PathsOf(columns[a]) : files[p] = None \/ files[p][1] = a

(***************************************************************************)
(* C13: at the end of a column's sweep of runLstm the persisted model file *)
(* and scaler file of the column hold the pair of one training step, the   *)
(* column's last successful one: the pair the cache holds.                 *)
(***************************************************************************)
C13_PersistedPairIsCache ==
    AtEndOfSweep("lstm") =>
        /\ lstmModelCurrent = LastTrained
        /\ lstmScalerCurrent = LastTrained
        /\ files[LstmModelPath(columns[col])] = lstmModelCurrent
        /\ files[LstmScalerPath(columns[col])] = lstmScalerCurrent

(***************************************************************************)
(* C14: every non-missing entry of a runLstm series was scaled and decoded *)
(* with the scaler fitted in the training step (same column, same date,    *)
(* hence same window) that trained the model which made the prediction,    *)
(* and that step is a step of the entry's column at or before its date.    *)
(***************************************************************************)
PairedEntry(e, c, i) ==
    ~e.nan =>
        /\ e.model # None
        /\ e.scaler = e.model
        /\ e.model[1] = c
        /\ e.model[2] <= i

C14_ScalerMatchesModel ==
    kind = "lstm" =>
        /\ InColumn =>
              \A i \in 1..Len(preds) : PairedEntry(preds[i], col, i)
        /\ \A c \in 1..Len(columns) :
              columns[c] \in DOMAIN forecasts =>
                 \A i \in 1..Len(forecasts[columns[c]]) :
                    PairedEntry(forecasts[columns[c]][i], c, i)

\* A returned series holding forecasts of two training steps, the later one
\* also used at a date after its own.
C14_Witness ==
    /\ kind = "lstm"
    /\ pc = "done"
    /\ \E c \in DOMAIN forecasts :
          \E i, j \in 1..Len(forecasts[c]) :
             /\ ~forecasts[c][i].nan
             /\ ~forecasts[c][j].nan
             /\ forecasts[c][i].model # forecasts[c][j].model
             /\ forecasts[c][j].model[2] < j

(***************************************************************************)
(* C15: at every evaluation date d at which runLstm runs the forward       *)
(* prediction, the model input is the lookback most recent table rows      *)
(* dated strictly before d, oldest first; the row of d is among the rows   *)
(* that are scaled and is not part of the input.                           *)
(***************************************************************************)
\* The rows dated before evaluation date i, and the K most recent of them.
PriorRows(i) == {r \in Rows : df[r].date < DateAt(i)}
MostRecent(i, K) ==
    {r \in PriorRows(i) :
        Cardinality({q \in PriorRows(i) : df[q].date > df[r].date}) < K}

Ascending(rows) ==
    \A a, b \in 1..Len(rows) : a < b => df[rows[a]].date < df[rows[b]].date

C15_InputIsRecentPast ==
    (Stepped("lstm") /\ event.branch = "predicted") =>
        /\ Len(event.input) = lookback
        /\ {event.input[k] : k \in 1..Len(event.input)}
              = MostRecent(event.day, lookback)
        /\ Ascending(event.input)
        /\ \A k \in 1..Len(event.input) :
              df[event.input[k]].date < DateAt(event.day)
        /\ \E k \in 1..Len(event.scaled) :
              event.scaled[k] = testIndex[event.day]

\* A forward prediction at a date preceded by more than lookback rows.
C15_Witness ==
    /\ Stepped("lstm")
    /\ event.branch = "predicted"
    /\ Cardinality(PriorRows(event.day)) > lookback + 1
    /\ event.day > 1

(***************************************************************************)
(* C16: in both forecasters every row the model (for runLstm also the      *)
(* scaler) behind the prediction of evaluation date d was fitted on is     *)
(* dated within [max(minDate, fitDate - span), fitDate - 1 day] for a fit  *)
(* date fitDate <= d: no row dated d or later is used for fitting.         *)
(***************************************************************************)
FittedInWindow(a, j) ==
    /\ a \in DOMAIN fittedOn
    /\ a[2] <= j
    /\ \A k \in 1..Len(fittedOn[a]) :
          LET date == df[fittedOn[a][k]].date
          IN /\ WindowStart(a[2]) <= date
             /\ date <= WindowEnd(a[2])
             /\ date < DateAt(j)

NoLookAhead(e, j) ==
    ~e.nan =>
        /\ FittedInWindow(e.model, j)
        /\ kind = "lstm" => FittedInWindow(e.scaler, j)

C16_FitRowsInWindow ==
    /\ InColumn => \A j \in 1..Len(preds) : NoLookAhead(preds[j], j)
    /\ \A c \in DOMAIN forecasts :
          \A j \in 1..Len(forecasts[c]) : NoLookAhead(forecasts[c][j], j)

\* A runLstm forecast made with a model of an earlier date, whose window
\* starts after the table's first date.
C16_Witness ==
    /\ Stepped("lstm")
    /\ event.branch = "predicted"
    /\ ~event.attempt
    /\ LET a == preds[event.day].model
       IN /\ a[2] < event.day
          /\ WindowStart(a[2]) > indexMin
          /\ Len(fittedOn[a]) > lookback

(***************************************************************************)
(* C17: over a table of L rows with lookback K, createSequences returns    *)
(* exactly max(L - K, 0) pairs; the input of pair i (counted from 0) is    *)
(* rows i .. i+K-1 in every feature column and its target is the target    *)
(* column's value at row i+K; when L <= K there is no pair and             *)
(* buildAndTrainLstm returns None without raising.                         *)
(***************************************************************************)
C17_SequencePairs ==
    event.op = "build" =>
        LET L == Len(df)
            K == lookback
            pairs == event.pairs
        IN /\ Len(pairs) = (IF L > K THEN L - K ELSE 0)
           /\ \A i \in 0..(Len(pairs) - 1) :
                 /\ Len(pairs[i + 1].x) = K
                 /\ \A k \in 0..(K - 1), c \in ColumnNames :
                       pairs[i + 1].x[k + 1][c] = df[i + k + 1].val[c]
                 /\ pairs[i + 1].y = df[i + K + 1].val[columns[col]]
           /\ L <= K =>
                 /\ pairs = << >>
                 /\ event.result = None
                 /\ event.fault = "none"
                 /\ pc = "done"
           /\ (L > K /\ pc = "done") => event.result # None

\* A call on a table of more rows than lookback + 1: more than one pair.
C17_Witness ==
    /\ event.op = "build"
    /\ pc = "done"
    /\ Len(event.pairs) >= 2
    /\ event.result # None

(***************************************************************************)
(* C18: in runLstm the scaled prediction is written into and read back     *)
(* from one position of a zero vector as wide as the scaler's features,    *)
(* and that position is the index of the target column in the requested    *)
(* column list: the value is decoded with the target column's range.       *)
(***************************************************************************)
\* The number of columns of the rows the scaler of the entry was fitted on.
FitWidth(e) ==
    LET rows == fittedOn[e.scaler]
    IN Cardinality(DOMAIN df[rows[1]].val)

C18_DecodePosition ==
    (Stepped("lstm") /\ event.branch = "predicted") =>
        /\ event.decoded.width = FitWidth(preds[event.day])
        /\ event.decoded.idx = event.col
        /\ columns[event.decoded.idx] = columns[event.col]
        /\ event.decoded.feature = columns[event.col]
        /\ event.decoded.scaled = << "yPredScaled" >>

\* A forecast of the second requested column.
C18_Witness ==
    /\ Stepped("lstm")
    /\ event.branch = "predicted"
    /\ event.col = 2
    /\ event.decoded.feature = columns[2]

(***************************************************************************)
(* C19: a save of a model or scaler that raises is caught inside the       *)
(* forecaster: nothing reaches the caller, the entries and series recorded *)
(* before it are unchanged, and the remaining dates and columns are        *)
(* processed and returned.                                                 *)
(***************************************************************************)
C19_SaveFailureContained ==
    /\ ~(pc = "raised" /\ event.fault \in LstmSaveFaults \cup {"dump"})
    /\ (Stepped("lstm") /\ event.fault \in LstmSaveFaults) =>
          /\ preds = Append(event.before.preds, Missing)
          /\ forecasts = event.before.forecasts
          /\ pc = "run"
          /\ dayIx = event.day + 1
    /\ (kind = "arima" /\ event.op = "endColumn" /\ event.fault = "dump") =>
          /\ forecasts = event.before.forecasts
                            @@ (columns[event.col] :> event.before.preds)
          /\ pc = "run"
          /\ col = event.col + 1
    /\ (pc = "done" /\ \E e \in errorLog :
                          e.fault \in LstmSaveFaults \cup {"dump"}) =>
          \A c \in ColumnNames :
             c \in DOMAIN forecasts /\ Len(forecasts[c]) = Len(testIndex)

\* runLstm has returned; a save raised at a date of the first column that
\* lies between two dates with forecasts.
C19_Witness ==
    /\ pc = "done"
    /\ kind = "lstm"
    /\ \E e \in errorLog :
          /\ e.fault \in LstmSaveFaults
          /\ e.col = 1
          /\ \E i \in 1..(e.day - 1) : ~forecasts[columns[1]][i].nan
          /\ \E j \in (e.day + 1)..Len(testIndex) :
                ~forecasts[columns[1]][j].nan

(***************************************************************************)
(* C20: when the loading of the table raises, the error is logged and      *)
(* raised again to the caller of the batch program: runArima and runLstm   *)
(* are not called and nothing is printed, evaluated or plotted.            *)
(***************************************************************************)
Called(fn) == \E k \in 1..Len(calls) : calls[k].fn = fn

C20_LoadFailurePropagates ==
    /\ (event.op = "load" /\ event.fault # "none") =>
          /\ pc = "raised"
          /\ LogEntry("Data Loading") \in errorLog
    /\ LogEntry("Data Loading") \in errorLog =>
          /\ pc = "raised"
          /\ ~Called("runArima")
          /\ ~Called("runLstm")
          /\ arimaResults = << >>
          /\ lstmResults = << >>
          /\ output = << >>
    /\ (Called("runArima") \/ output # << >>) =>
          LogEntry("Data Loading") \notin errorLog

\* The loader raised: the program has stopped with only the loader called.
C20_Witness ==
    /\ kind = "main"
    /\ pc = "raised"
    /\ LogEntry("Data Loading") \in errorLog
    /\ Len(calls) = 1
    /\ calls[1].fn = "loadNifty50Yfinance"

(***************************************************************************)
(* C21: the evaluation index of both forecasters is exactly the table's    *)
(* dates strictly after the cutoff (the latest table date minus gap_years  *)
(* calendar years), in ascending order; the cutoff date and every earlier  *)
(* date get no prediction entry.                                           *)
(***************************************************************************)
\* The date n calendar years before d: same month and day, 29 February
\* falling back to 28 February in a year that has none.
CalendarYearsBefore(d, n) ==
    IF Month(d) = 2 /\ DayOfMonth(d) = 29 /\ ~IsLeap(Year(d) - n)
    THEN MkDate(Year(d) - n, 2, 28)
    ELSE d - n * 10000

Cutoff == CalendarYearsBefore(indexMax, gap_years)

C21_EvaluationIndex ==
    kind \in {"arima", "lstm"} =>
       LET cutoff == Cutoff
           later == {r \in Rows : df[r].date > cutoff}
           n == Cardinality(later)
       IN /\ {testIndex[k] : k \in 1..Len(testIndex)} = later
          /\ Len(testIndex) = n
          /\ \A j, k \in 1..Len(testIndex) : j < k => DateAt(j) < DateAt(k)
          /\ \A c \in 1..Len(columns) :
                c <= col /\ (c = col => pc = "run") => Len(SeriesOf(c)) <= n
          /\ event.op = "step" =>
                /\ event.day \in 1..Len(testIndex)
                /\ DateAt(event.day) > cutoff
          /\ pc = "done" =>
                \A c \in 1..Len(columns) : Len(forecasts[columns[c]]) = n

\* A finished run on a table that holds the cutoff date and an earlier date:
\* neither has an entry, every later date has a forecast.
C21_Witness ==
    /\ kind \in {"arima", "lstm"}
    /\ pc = "done"
    /\ \E r \in Rows : df[r].date = Cutoff
    /\ \E r \in Rows : df[r].date < Cutoff
    /\ Len(testIndex) >= 2
    /\ Len(testIndex) + 2 <= Len(df)
    /\ \E c \in 1..Len(columns) :
          /\ Len(forecasts[columns[c]]) = Len(testIndex)
          /\ \E k \in 1..Len(testIndex) : ~forecasts[columns[c]][k].nan

(***************************************************************************)
(* C22: the evaluator's test index is exactly the set of dates at which    *)
(* the ARIMA result and the LSTM result both hold a prediction for Open    *)
(* and for Close; a date missing in any one of the four series is left     *)
(* out.                                                                    *)
(***************************************************************************)
Aligned ==
    /\ kind = "main"
    /\ \/ pc \in {"evaluate", "plot", "done"}
       \/ pc = "raised" /\ event.op = "evaluate"

TestDates == {testIndex[k] : k \in 1..Len(testIndex)}

PredictedInAll(r) ==
    \A c \in {"Open", "Close"} :
       /\ r \in DOMAIN arimaResults[c] /\ ~arimaResults[c][r].nan
       /\ r \in DOMAIN lstmResults[c] /\ ~lstmResults[c][r].nan

C22_TestIndexIsCommonDates ==
    Aligned =>
       /\ TestDates = {r \in Rows : PredictedInAll(r)}
       /\ Len(testIndex) = Cardinality(TestDates)

\* The alignment kept one date and left out another, which one of the four
\* series has no prediction for.
C22_Witness ==
    /\ Aligned
    /\ event.op = "align"
    /\ TestDates # {}
    /\ \E r \in EvalRows \ TestDates :
          /\ arimaResults["Open"][r].nan
          /\ ~arimaResults["Close"][r].nan
          /\ ~lstmResults["Open"][r].nan
          /\ ~lstmResults["Close"][r].nan

(***************************************************************************)
(* C23: for each column, RMSE and MAPE are computed only over dates at     *)
(* which the ground truth, the ARIMA prediction and the LSTM prediction    *)
(* of that column are all present; a date whose ground truth is missing    *)
(* never enters a metric.                                                  *)
(***************************************************************************)
MetricFunctions == {"mean_squared_error", "mean_absolute_percentage_error"}
MetricCalls == {k \in 1..Len(calls) : calls[k].fn \in MetricFunctions}

AllPresent(c, r) ==
    /\ df[r].val[c] # NaN
    /\ ~arimaResults[c][r].nan
    /\ ~lstmResults[c][r].nan

C23_MetricsOnPresentValues ==
    kind = "main" =>
       /\ \A k \in MetricCalls :
             \A r \in calls[k].on : AllPresent(calls[k].col, r)
       /\ \A k \in 1..Len(output) :
             output[k].msg \in {"forecast_metrics_ARIMA", "forecast_metrics_LSTM"}
                => \A r \in output[k].on : AllPresent(output[k].col, r)

\* Metrics were computed for Open on a table with a missing Open value at
\* an evaluation date both ARIMA series hold a prediction for: that date is
\* in no metric.
C23_Witness ==
    /\ kind = "main"
    /\ pc = "done"
    /\ \E k \in MetricCalls : calls[k].col = "Open" /\ calls[k].on # {}
    /\ \E r \in EvalRows :
          /\ df[r].val["Open"] = NaN
          /\ ~arimaResults["Open"][r].nan
          /\ ~arimaResults["Close"][r].nan
          /\ \A k \in MetricCalls : r \notin calls[k].on

(***************************************************************************)
(* C24: when either model has no prediction at all for a column, the       *)
(* evaluator reports the column as having no valid forecast and computes   *)
(* no metric for it; a metric function is never called on an empty set of  *)
(* dates.                                                                  *)
(***************************************************************************)
\* Column position k has been through the evaluation loop.
Evaluated(k) ==
    /\ kind = "main"
    /\ \/ pc \in {"plot", "done"}
       \/ pc = "evaluate" /\ k < col

NoPrediction(c) ==
    \/ \A r \in DOMAIN arimaResults[c] : arimaResults[c][r].nan
    \/ \A r \in DOMAIN lstmResults[c] : lstmResults[c][r].nan

ReportedWithoutForecast(c) ==
    \E k \in 1..Len(output) :
       output[k].msg = "no_valid_forecast" /\ output[k].col = c

C24_NoForecastNoMetric ==
    kind = "main" =>
       /\ \A k \in 1..Len(targetColumns) :
             Evaluated(k) /\ NoPrediction(targetColumns[k]) =>
                /\ ReportedWithoutForecast(targetColumns[k])
                /\ \A j \in MetricCalls : calls[j].col # targetColumns[k]
       /\ \A j \in MetricCalls : calls[j].on # {}

\* The evaluation is over; ARIMA predicted nothing for Open while the LSTM
\* predicted some date for it, and Open was reported without a forecast.
C24_Witness ==
    /\ kind = "main"
    /\ pc = "done"
    /\ \A r \in DOMAIN arimaResults["Open"] : arimaResults["Open"][r].nan
    /\ \E r \in DOMAIN lstmResults["Open"] : ~lstmResults["Open"][r].nan
    /\ ReportedWithoutForecast("Open")
    /\ MetricCalls = {}

(***************************************************************************)
(* C25: when every evaluation date has a valid window with at least 5      *)
(* observations of the column and the order search, the fit, the forecast  *)
(* and the dump never raise, runArima (retrain=True) returns for the       *)
(* column one entry per evaluation date, each the forecast of the model    *)
(* fitted at that date, and writes exactly one model file for the column.  *)
(***************************************************************************)
EveryDateFittable(c) ==
    \A i \in 1..Len(testIndex) :
       WindowIsValid(i) /\ Observations(i, columns[c]) >= 5

NothingRaised(c) == \A e \in errorLog : e.col # c

C25_AllDatesForecast ==
    (kind = "arima" /\ retrain /\ event.op = "endColumn"
       /\ EveryDateFittable(event.col) /\ NothingRaised(event.col)) =>
       LET c == event.col
           series == forecasts[columns[c]]
           path == ArimaModelPath(columns[c])
       IN /\ Len(testIndex) >= 1
          /\ Len(series) = Len(testIndex)
          /\ \A k \in 1..Len(testIndex) :
                series[k] = Value(Artifact(c, k), None)
          /\ event.branch = "saved"
          /\ files[path] = Artifact(c, Len(testIndex))
          /\ \A q \in Paths \ {path} : files[q] = event.before.files[q]

\* A column swept over two evaluation dates, the first with exactly 5
\* observations in its window, and its model file written.
C25_Witness ==
    /\ kind = "arima"
    /\ retrain
    /\ event.op = "endColumn"
    /\ EveryDateFittable(event.col)
    /\ NothingRaised(event.col)
    /\ Len(testIndex) >= 2
    /\ Observations(1, columns[event.col]) = 5
    /\ event.branch = "saved"

(***************************************************************************)
(* C26: on a table of fewer than lookback + 1 rows runLstm returns, for    *)
(* every requested column, a series of the length of the evaluation index  *)
(* whose entries are all missing; it does not raise, trains and persists   *)
(* nothing, and the cache is still empty at the end.                       *)
(***************************************************************************)
ShortTable == Len(df) < lookback + 1

AllMissing(series) == \A k \in 1..Len(series) : series[k] = Missing

C26_ShortTableAllMissing ==
    (kind = "lstm" /\ ShortTable) =>
       /\ pc # "raised"
       /\ errorLog = {}
       /\ attemptedAt = {}
       /\ trainedAt = {}
       /\ event.op = "step" => ~event.attempt /\ ~event.trained
       /\ lstmModelCurrent = None
       /\ lstmScalerCurrent = None
       /\ \A q \in Paths : files[q] = None
       /\ AllMissing(preds)
       /\ \A c \in DOMAIN forecasts :
             /\ Len(forecasts[c]) = Len(testIndex)
             /\ AllMissing(forecasts[c])
       /\ pc = "done" => DOMAIN forecasts = ColumnNames

\* runLstm has returned on a table of exactly lookback rows; the window of
\* some date was valid, so that the row count is what stopped the training.
C26_Witness ==
    /\ kind = "lstm"
    /\ pc = "done"
    /\ Len(df) = lookback
    /\ Len(testIndex) >= 1
    /\ \E i \in 1..Len(testIndex) : WindowIsValid(i)
    /\ \A c \in ColumnNames :
          Len(forecasts[c]) = Len(testIndex) /\ AllMissing(forecasts[c])

(***************************************************************************)
(* C27: each column's sweep in runLstm starts with an empty cache and a    *)
(* counter of zero, and the model and the scaler used to predict a column  *)
(* were trained during that column's own sweep: nothing trained for one    *)
(* column is used to predict another.                                      *)
(***************************************************************************)
AtStartOfSweep == pc = "run" /\ dayIx = 1

OwnArtifact(a, c) == a = None \/ a[1] = c

C27_CachePerColumn ==
    kind = "lstm" =>
       /\ AtStartOfSweep =>
             /\ lstmModelCurrent = None
             /\ lstmScalerCurrent = None
             /\ lstmCounter = 0
             /\ preds = << >>
       /\ InColumn =>
             /\ OwnArtifact(lstmModelCurrent, col)
             /\ OwnArtifact(lstmScalerCurrent, col)
       /\ event.op = "step" =>
             /\ OwnArtifact(event.before.model, event.col)
             /\ OwnArtifact(event.before.scaler, event.col)
       /\ \A c \in 1..Len(columns) :
             (c < col \/ (c = col /\ pc = "run")) =>
                \A i \in 1..Len(SeriesOf(c)) :
                   ~SeriesOf(c)[i].nan =>
                      /\ SeriesOf(c)[i].model[1] = c
                      /\ SeriesOf(c)[i].scaler[1] = c

\* A date of the second column predicted with a pair trained for the second
\* column, after a first column that was predicted too and so ended with a
\* pair of its own in the cache.
C27_Witness ==
    /\ Stepped("lstm")
    /\ event.col = 2
    /\ event.branch = "predicted"
    /\ preds[event.day].model[1] = 2
    /\ preds[event.day].scaler[1] = 2
    /\ \E i \in 1..Len(SeriesOf(1)) : ~SeriesOf(1)[i].nan

(***************************************************************************)
(* C28: the interactive predictor reuses the persisted artifacts: the      *)
(* ARIMA branch refits with the order of the persisted model of the        *)
(* column, and the LSTM branch scales its input and decodes its output     *)
(* with the scaler persisted with the loaded model, not with a newly       *)
(* fitted one.                                                             *)
(***************************************************************************)
C28_ReusesPersisted ==
    kind = "gui" =>
       \A c \in DOMAIN gui.predictions :
          LET p == gui.predictions[c]
          IN /\ gui.typeSelect = "ARIMA" =>
                   /\ p.model = files[ArimaModelPath(c)]
                   /\ p.order = p.model
             /\ gui.typeSelect = "LSTM" =>
                   /\ p.model = files[LstmModelPath(c)]
                   /\ files[LstmScalerPath(c)] # None =>
                         p.scaler = files[LstmScalerPath(c)]

(***************************************************************************)
(* C29: the table loadNifty50Yfinance returns has no missing value in a    *)
(* target column, Open or Close: every provider row with a missing target  *)
(* value has been removed.                                                 *)
(***************************************************************************)
Returned == kind = "load" /\ pc = "returned"

C29_NoMissingTarget ==
    Returned =>
       \A i \in 1..Len(df) :
          \A c \in {"Open", "Close"} : df[i].val[c] # NaN

(***************************************************************************)
(* C30: whatever order the provider returns its rows in, the table         *)
(* loadNifty50Yfinance returns is in ascending order of date, holds only   *)
(* Monday-to-Friday dates and no row whose Close is missing.               *)
(***************************************************************************)
RowsOf(rows) == {rows[i] : i \in 1..Len(rows)}

C30_SortedWeekdaysClosePresent ==
    Returned =>
       /\ \A i, j \in 1..Len(df) : i < j => df[i].date < df[j].date
       /\ \A i \in 1..Len(df) :
             /\ dayofweek(df[i].date) \in 0..4
             /\ df[i].val["Close"] # NaN
       /\ RowsOf(df) =
             {r \in RowsOf(event.provider) :
                 dayofweek(r.date) \in 0..4 /\ r.val["Close"] # NaN}

\* The provider answered with a Saturday row, a row without Close and two
\* more rows, the later of them first; both of these were returned.
C30_Witness ==
    /\ Returned
    /\ Len(df) = 2
    /\ \E i, j \in 1..Len(event.provider) :
          /\ i < j
          /\ event.provider[i] = df[2]
          /\ event.provider[j] = df[1]
    /\ \E i \in 1..Len(event.provider) :
          dayofweek(event.provider[i].date) = 5
    /\ \E i \in 1..Len(event.provider) :
          /\ dayofweek(event.provider[i].date) < 5
          /\ event.provider[i].val["Close"] = NaN

(***************************************************************************)
(* C31: in the interactive predictor, whenever a step of a prediction      *)
(* request raises, the user is shown an error message, and no partial      *)
(* output of that request (per-column prediction, actual value, plot or    *)
(* summary table) has been displayed.                                      *)
(***************************************************************************)
RequestOutput ==
    {"prediction_header", "prediction_success", "actual_success",
     "actual_data_missing", "pyplot", "summary_table_title", "summary_table",
     "rmseMape_explanation"}

ErrorMessages == {"prediction_failed", "actual_fetch_error"}

Displayed(messages) == \E k \in 1..Len(output) : output[k].msg \in messages

C31_ErrorWithoutPartialOutput ==
    (kind = "gui" /\ event.fault # "none") =>
       /\ Displayed(ErrorMessages)
       /\ ~Displayed(RequestOutput)

(***************************************************************************)
(* C32: runArima and runLstm always terminate once the table is given:     *)
(* every (column, evaluation date) pair is visited exactly once, columns   *)
(* in request order and dates in chronological order, each date's step     *)
(* finishing before the next begins, and the call returns a mapping with   *)
(* exactly one series per requested column.                                *)
(***************************************************************************)
ForecasterReturned == kind \in {"arima", "lstm"} /\ pc = "done"

\* The position after <<c, i>> in the order "columns as requested, dates
\* ascending within a column"; past the last date, the end of the column.
VisitsInOrder ==
    /\ event'.op \in {"step", "endColumn", "return"}
    /\ event'.op = "step" =>
          /\ col \in 1..Len(columns) /\ dayIx \in 1..Len(testIndex)
          /\ << event'.col, event'.day >> = << col, dayIx >>
          /\ << col', dayIx' >> = << col, dayIx + 1 >>
          /\ Len(preds') = dayIx
    /\ event'.op = "endColumn" =>
          /\ col \in 1..Len(columns) /\ dayIx = Len(testIndex) + 1
          /\ event'.col = col
          /\ << col', dayIx' >> = << col + 1, 1 >>
          /\ DOMAIN forecasts' = {columns[k] : k \in 1..col}
    /\ event'.op = "return" =>
          /\ col = Len(columns) + 1 /\ dayIx = 1
          /\ pc' = "done"
    /\ \A k \in 1..(Len(df) - 1) : df[k].date < df[k + 1].date
    /\ \A k \in 1..(Len(testIndex) - 1) : testIndex[k] < testIndex[k + 1]

OneSeriesPerColumn ==
    /\ DOMAIN forecasts = ColumnNames
    /\ \A c \in ColumnNames : Len(forecasts[c]) = Len(testIndex)

C32_TerminatesInOrder ==
    /\ [][VisitsInOrder]_vars
    /\ [](ForecasterReturned => OneSeriesPerColumn)
    /\ <>ForecasterReturned

\* A call returned after sweeping two columns over at least two dates, one
\* of whose steps raised inside its try block.
C32_Witness ==
    /\ ForecasterReturned
    /\ Len(columns) = 2
    /\ Len(testIndex) >= 2
    /\ faults >= 1
    /\ \E c \in ColumnNames : \E i \in 1..Len(testIndex) : ~forecasts[c][i].nan

(***************************************************************************)
(* C33: runArima called with retrain=False returns the same predictions as *)
(* with retrain=True on the same table, and persists no model file: the    *)
(* flag controls only whether the final model is saved.  What a call       *)
(* returns is determined by the table, the columns and the outcomes of the *)
(* library calls, without the flag.                                        *)
(***************************************************************************)
ArimaReturned == kind = "arima" /\ pc = "done"

PositionOf(c) == CHOOSE k \in 1..Len(columns) : columns[k] = c

\* The entry of column c at evaluation date i, from the table and from
\* which library calls raised: the flag is no part of it.
EntryWhateverTheFlag(c, i) ==
    LET day == DateAt(i)
        k == PositionOf(c)
    IN IF WindowInvalid(day) \/ Len(yTrain(day, c)) < minObservations
       THEN Missing
       ELSE IF \E f \in ArimaFaults :
                  [col |-> k, day |-> i, fault |-> f] \in errorLog
       THEN Missing
       ELSE Value(Artifact(k, i), None)

C33_FlagOnlyControlsSave ==
    ArimaReturned =>
       /\ DOMAIN forecasts = ColumnNames
       /\ \A c \in ColumnNames :
             /\ Len(forecasts[c]) = Len(testIndex)
             /\ \A i \in 1..Len(testIndex) :
                   forecasts[c][i] = EntryWhateverTheFlag(c, i)
       /\ ~retrain => \A p \in Paths : files[p] = None

\* A call with retrain=False returned a forecast for each of two columns.
C33_Witness ==
    /\ ArimaReturned
    /\ ~retrain
    /\ Len(columns) = 2
    /\ \A c \in ColumnNames :
          \E i \in 1..Len(testIndex) : ~forecasts[c][i].nan
    /\ \A p \in Paths : files[p] = None

(***************************************************************************)
(* C34: in runLstm, while the column's cache is empty a training step is   *)
(* attempted on every valid date, whatever the counter, until one          *)
(* succeeds; once the cache holds a model, training is attempted only when *)
(* the counter is a multiple of retrainInterval, so a scheduled retrain    *)
(* whose training raised is not retried before the next multiple, and the  *)
(* valid dates in between are predicted with the model and scaler that     *)
(* were cached before it.                                                  *)
(***************************************************************************)
\* The dates of the column, up to date i, at which the cache received a
\* model: the cache is empty at date i exactly when there is none before i.
TrainedBefore(i) == {t \in trainedAt : t < i}

\* Training raised at date j although the cache held a model.
FailedRetrain(j) ==
    /\ j \in attemptedAt \ trainedAt
    /\ TrainedBefore(j) # {}

C34_RetryOnlyWhileEmpty ==
    (kind = "lstm" /\ InColumn) =>
       LET valid == ValidLstmDates(Len(preds))
           counterAt(i) == Cardinality({v \in valid : v <= i})
       IN \A i \in valid :
             LET before == TrainedBefore(i)
             IN /\ before = {} => i \in attemptedAt
                /\ before # {} =>
                      LET cached == Artifact(col, SetMax(before))
                      IN /\ i \in attemptedAt <=>
                               counterAt(i) % retrainInterval = 0
                         /\ i \notin attemptedAt =>
                               \/ preds[i].nan
                               \/ preds[i] = Value(cached, cached)

\* The scheduled retrain of a date raised in training; the next valid date
\* was predicted, without training, with the pair cached before the failure.
C34_Witness ==
    /\ kind = "lstm"
    /\ InColumn
    /\ \E j \in 1..(Len(preds) - 1) :
          /\ FailedRetrain(j)
          /\ PassesLstmChecks(j + 1)
          /\ (j + 1) \notin attemptedAt
          /\ ~preds[j + 1].nan
          /\ preds[j + 1].model = Artifact(col, SetMax(TrainedBefore(j)))

(***************************************************************************)
(* C35: in runLstm, when training succeeds and the save of the model or of *)
(* the scaler raises, the entry of that date is missing, yet the cache     *)
(* already holds the newly trained model and scaler, and the following     *)
(* dates that are not retrain steps are predicted with that new pair.      *)
(***************************************************************************)
\* The save of the pair trained at date j of the current column raised.
SaveFailedAt(j) ==
    \E f \in LstmSaveFaults : [col |-> col, day |-> j, fault |-> f] \in errorLog

C35_SaveFailureKeepsNewPair ==
    (kind = "lstm" /\ InColumn) =>
       \A j \in 1..Len(preds) :
          SaveFailedAt(j) =>
             LET new == Artifact(col, j)
                 later == {a \in attemptedAt : a > j}
                 upTo == IF later = {} THEN Len(preds) ELSE SetMin(later) - 1
             IN /\ preds[j] = Missing
                /\ j \in trainedAt
                /\ later = {} =>
                      lstmModelCurrent = new /\ lstmScalerCurrent = new
                /\ \A i \in (j + 1)..upTo :
                      preds[i].nan \/ preds[i] = Value(new, new)

\* The save raised at a date, and the next date, not a retrain step, was
\* predicted with the pair trained at that date.
C35_Witness ==
    /\ kind = "lstm"
    /\ InColumn
    /\ \E j \in 1..(Len(preds) - 1) :
          /\ SaveFailedAt(j)
          /\ (j + 1) \notin attemptedAt
          /\ preds[j + 1] = Value(Artifact(col, j), Artifact(col, j))

(***************************************************************************)
(* C36: in runLstm, whenever a date passes the training-window check (at   *)
(* least lookback+1 jointly non-missing rows in the window), the training  *)
(* step is given at least one supervised pair, so buildAndTrainLstm does   *)
(* not return None and the cached model is never set to None, and at least *)
(* lookback rows of the table precede the date, so the branch for fewer    *)
(* than lookback prior days never records a missing prediction.            *)
(***************************************************************************)
PassedWindowCheck ==
    Stepped("lstm") /\ event.branch \notin {"invalidWindow", "insufficient"}

C36_PassedCheckHasPairsAndHistory ==
    PassedWindowCheck =>
       LET day == DateAt(event.day)
           pairs == createSequences(dfWindow(day), lookback,
                                    columns[event.col])
       IN /\ JointRows(event.day) >= lookback + 1
          /\ Len(pairs) >= 1
          /\ (event.attempt /\ event.fault \notin LstmTrainFaults) =>
                /\ event.trained
                /\ lstmModelCurrent # None
          /\ event.before.model # None => lstmModelCurrent # None
          /\ Cardinality(PriorRows(event.day)) >= lookback
          /\ Len(pastIdx(day)) = lookback
          /\ event.branch \notin {"shortHistory", "noModel"}

\* A date whose window holds exactly lookback+1 complete rows was trained
\* on its single pair and predicted.
C36_Witness ==
    /\ PassedWindowCheck
    /\ JointRows(event.day) = lookback + 1
    /\ event.attempt
    /\ event.trained
    /\ event.branch = "predicted"

(***************************************************************************)
(* C37: in runLstm, a date whose own row, or any of the lookback rows      *)
(* immediately preceding it, has a missing value in any requested column   *)
(* gets a missing prediction for every requested column, even when a       *)
(* trained model is cached and even though the row of the date is not fed  *)
(* to the model.                                                           *)
(***************************************************************************)
\* The row of evaluation date i and the lookback rows before it: the table
\* is in ascending order of date, so they are the rows next to it.
InputRows(i) == {r \in Rows : testIndex[i] - lookback <= r /\ r <= testIndex[i]}

IncompleteInput(i) == \E r \in InputRows(i) : ~Complete(r)

C37_MissingInputMissingPrediction ==
    (kind = "lstm" /\ pc \in {"run", "done"}) =>
       \A c \in 1..Len(columns) :
          (c < col \/ (c = col /\ pc = "run")) =>
             \A i \in 1..Len(SeriesOf(c)) :
                IncompleteInput(i) => SeriesOf(c)[i].nan

\* With a trained model in the cache, a date whose own row alone has a
\* missing value was left without a prediction.
C37_Witness ==
    /\ Stepped("lstm")
    /\ event.before.model # None
    /\ ~event.attempt
    /\ ~Complete(testIndex[event.day])
    /\ \A r \in InputRows(event.day) \ {testIndex[event.day]} : Complete(r)
    /\ Cardinality(InputRows(event.day)) = lookback + 1
    /\ event.branch = "missingInput"
    /\ preds[event.day].nan

(***************************************************************************)
(* C38: in the batch evaluator each column's valid date set equals the     *)
(* global intersection index, so for any pair of forecast results either   *)
(* every target column gets RMSE and MAPE or every target column is        *)
(* reported as having no valid forecast, and the predicted-prices header   *)
(* is printed exactly when that index is non-empty.                        *)
(***************************************************************************)
\* validIndex of column c, from what the forecasters returned.
ValidDates(c) ==
    {r \in TestDates : ~arimaResults[c][r].nan /\ ~lstmResults[c][r].nan}

Printed(m, c) ==
    \E k \in 1..Len(output) : output[k].msg = m /\ output[k].col = c

GotMetrics(c) ==
    /\ \A fn \in MetricFunctions :
          \E j \in MetricCalls :
             calls[j].fn = fn /\ calls[j].col = c /\ calls[j].on = TestDates
    /\ Printed("forecast_metrics_ARIMA", c)
    /\ Printed("forecast_metrics_LSTM", c)
    /\ ~Printed("no_valid_forecast", c)

GotNoForecast(c) ==
    /\ Printed("no_valid_forecast", c)
    /\ \A j \in MetricCalls : calls[j].col # c
    /\ ~Printed("forecast_metrics_ARIMA", c)
    /\ ~Printed("forecast_metrics_LSTM", c)

C38_AllColumnsOrNone ==
    Aligned =>
       /\ \A k \in 1..Len(targetColumns) :
             ValidDates(targetColumns[k]) = TestDates
       /\ \A k \in 1..Len(targetColumns) :
             Evaluated(k) =>
                IF TestDates # {} THEN GotMetrics(targetColumns[k])
                ELSE GotNoForecast(targetColumns[k])
       /\ pc # "raised"
       /\ Printed("predicted_prices_header", "") <=> TestDates # {}
       /\ Printed("no_test_index", "") <=> TestDates = {}

\* The evaluation is over and both columns got their metrics on a non-empty
\* index, narrower than what either forecaster predicted for some column.
C38_Witness ==
    /\ kind = "main"
    /\ pc = "done"
    /\ TestDates # {}
    /\ \A k \in 1..Len(targetColumns) : GotMetrics(targetColumns[k])
    /\ \E c \in {"Open", "Close"} :
          \E r \in DOMAIN arimaResults[c] :
             r \notin TestDates /\ ~arimaResults[c][r].nan
    /\ \E c \in {"Open", "Close"} :
          \E r \in DOMAIN lstmResults[c] :
             r \notin TestDates /\ ~lstmResults[c][r].nan

====
